---- MODULE Spec2Model ----
(***************************************************************************)
(* A model of the SVM toolchain (hexaflex/svm): the CPU core with its      *)
(* interrupt queue and callstack, and the assembler's instruction encoder. *)
(*                                                                         *)
(* The CPU is modelled at byte level: `mem` holds the bytes of the memory  *)
(* bank for the register window and for the top of the callstack.  The     *)
(* contents of the code region are left open: every Step decodes one       *)
(* instruction drawn from the set Instrs, which stands for whatever bytes  *)
(* the loaded program holds at RIP.                                        *)
(***************************************************************************)
EXTENDS Integers, Sequences, FiniteSets, TLC

(***************************************************************************)
(* Bounds of the model.                                                    *)
(***************************************************************************)
\* Number of callstack slots of the memory bank the model keeps track of.
MaxDepth == 2
\* Number of Step calls explored.
MaxSteps == 4
\* Number of interrupt messages devices get accepted in the main specification.
MaxMsgs == 2
\* Number of interrupt messages devices get accepted in the queue-filling specification.
MaxFill == 34
\* Number of nodes of an assembled module.
MaxNodes == 3
\* Number of Step calls explored in the arithmetic specification.
MaxAluSteps == 2
\* Number of calls the CPU thread makes in the peripherals specification.
MaxDevOps == 4
\* Number of source fragments a module of the front passes is put together from.
MaxItems == 3
\* Number of nodes in a source file of the include specification.
MaxFileNodes == 2
\* Number of nodes beyond which include resolution is taken not to end.
MaxAstLen == 12
\* Number of instructions in a module of the evaluation specification.
MaxEvalInstrs == 1
\* Length of an archive's instruction bytes and of its symbol table.
MaxArBytes == 2
MaxSymbols == 1
\* Number of assemblies in one process.
MaxRuns == 2
MaxTail == 3
MaxDecodes == 2
MaxRngSteps == 2
MaxConnects == 3
MaxHwaSteps == 2
MaxLiveMsgs == 7
MaxFlagSteps == 4
\* Number of source fragments a module of the expansion specification is put
\* together from.
MaxExpandItems == 3
\* Number of replaced invocations beyond which the expansion is taken not to
\* end; no module of the specifications without a macro that reaches itself
\* has that many.
MaxExpanded == 8

(***************************************************************************)
(* Program constants.                                                      *)
(***************************************************************************)
IntQueueCapacity == 32
UserMemoryCapacity == 65536
RegisterCapacity == 16
MemoryCapacity == UserMemoryCapacity + RegisterCapacity

R0 == UserMemoryCapacity
R1 == R0 + 2
R2 == R1 + 2
R3 == R2 + 2
RSP == R3 + 2
RIP == RSP + 2
RIA == RIP + 2
RST == RIA + 2

\* arch type descriptors
U8 == 0
U16 == 1
I8 == 2
I16 == 3

\* arch address modes
ImmediateConstant == 0
IndirectConstant == 1
ImmediateRegister == 2
IndirectRegister == 3

(***************************************************************************)
(* The part of the memory bank the model keeps: the register window and    *)
(* the callstack slots from UserMemoryCapacity-2 downward.                 *)
(***************************************************************************)
StackBase == UserMemoryCapacity - 2
StackSlots == {StackBase - 2 * i : i \in 0..MaxDepth}
StackAddrs == UNION {{s, s + 1} : s \in StackSlots}
RegAddrs == UserMemoryCapacity..(MemoryCapacity - 1)
Addrs == StackAddrs \cup RegAddrs

(***************************************************************************)
(* Memory accessors (16-bit values are stored high byte first).            *)
(***************************************************************************)
SetI8(m, addr, value) == [m EXCEPT ![addr] = value % 256]

GetI8(m, addr) == IF m[addr] >= 128 THEN m[addr] - 256 ELSE m[addr]

SetU8(m, addr, value) == [m EXCEPT ![addr] = value % 256]

GetU8(m, addr) == m[addr]

SetI16(m, addr, value) ==
    [m EXCEPT ![addr] = (value \div 256) % 256, ![addr + 1] = value % 256]

GetU16(m, addr) == m[addr] * 256 + m[addr + 1]

GetI16(m, addr) ==
    IF GetU16(m, addr) >= 32768 THEN GetU16(m, addr) - 65536 ELSE GetU16(m, addr)

SetU16(m, addr, value) ==
    [m EXCEPT ![addr] = (value \div 256) % 256, ![addr + 1] = value % 256]

\* setVal stores value at addr with the storage method of the operand type.
setVal(m, type, addr, value) ==
    CASE type = U8 -> SetU8(m, addr, value)
      [] type = U16 -> SetU16(m, addr, value)
      [] type = I8 -> SetI8(m, addr, value)
      [] type = I16 -> SetI16(m, addr, value)

\* Typed read of the operand value behind an address.
typedRead(m, type, addr) ==
    CASE type = U8 -> GetU8(m, addr)
      [] type = U16 -> GetU16(m, addr)
      [] type = I8 -> GetI8(m, addr)
      [] type = I16 -> GetI16(m, addr)

\* A 16-bit literal extended per operand type.
typedConst(type, v) ==
    CASE type = U8 -> v % 256
      [] type = U16 -> v % 65536
      [] type = I8 -> IF v % 256 >= 128 THEN (v % 256) - 256 ELSE v % 256
      [] type = I16 -> IF v % 65536 >= 32768 THEN (v % 65536) - 65536 ELSE v % 65536

(***************************************************************************)
(* State.                                                                  *)
(***************************************************************************)
VARIABLES
    mem,            \* CPU.memory restricted to Addrs
    intQueue,       \* CPU.intQueue: the buffered channel's contents, oldest first
    inIntHandler,   \* CPU.inIntHandler
    initialized,    \* CPU.initialized (0 or 1)
    argType,        \* CPU.instr.Args[0].Type as left by the last decode
    intFunc,        \* TRUE once devices hold the interrupt callback
    accepted,       \* history: messages accepted into the queue, in order
    delivered,      \* history: messages handed to the handler, in order
    saved,          \* history: R0, RIP and RSP just before the last delivery
    stack,          \* history: values pushed and not yet popped, oldest first
    underflow,      \* history: some pop was executed on an empty callstack
    last,           \* history: what the last Step did
    steps,          \* history: number of Step calls so far
    lastEnq,        \* history: outcome of the last queueInterrupt call
    nodes,          \* assembler: the nodes of the module's AST
    pass,           \* assembler: the pass of assemble that completed last
    address,        \* assembler.address
    symbols,        \* assembler.symbols: label name -> address
    Instructions,   \* assembler.ar.Instructions
    follows,        \* history: label name -> index of the node after the label
    emitted,        \* history: per node, where compile emitted it
    decoded,         \* the VM decoder's position in the image and its last result
    clock,          \* clock.Device: its fields and channels
    polls,          \* the clock's poll goroutines, one per Startup
    fd,             \* fd35.Device: its fields and its backing file
    workers,        \* the fd35 transfer goroutines, one per accepted request
    devLast,        \* who took the last peripheral step and what it touched
    devOps,         \* number of calls made by the CPU thread
    macros,         \* assembler.macros: key -> body of the macro
    uniq,           \* syntax.uniqueNameCounter
    expanded,       \* history: number of macro invocations replaced
    asmErr,         \* history: the pass that failed and the name it reported
    found,          \* history: the last reference looked up and its result
    source,         \* history: the nodes of the module as parsed
    files,          \* the source files: name -> nodes of the file
    ar,             \* the archive that is saved
    buf,            \* the bytes.Buffer the archive is saved to
    br,             \* the archive the buffer was loaded into
    runs,           \* history: the assemblies this process has finished
    devices,        \* CPU.devices: the ids of the connected peripherals, in order
    connected       \* history: the last call of Connect and what it returned

cpuVars == <<mem, intQueue, inIntHandler, initialized, argType, intFunc,
             accepted, delivered, saved, stack, underflow, last, steps, lastEnq>>

asmVars == <<nodes, pass, address, symbols, Instructions, follows, emitted, decoded>>

devVars == <<clock, polls, fd, workers, devLast, devOps>>

frontVars == <<macros, uniq, expanded, asmErr, found, source, files>>

procVars == <<ar, buf, br, runs, devices, connected>>

vars == <<cpuVars, asmVars, devVars, frontVars, procVars>>

NoStep == [op |-> "none", intr |-> FALSE, pend |-> 0, args |-> <<>>, err |-> "nil"]
NoSave == [r0 |-> 0, rip |-> 0, rsp |-> 0, rst |-> 0]

(***************************************************************************)
(* Callstack.  A cpu value c is a record [mem, ok, st, uf]: the memory     *)
(* bank, whether every access so far stayed inside Addrs, and the history  *)
(* of the callstack.                                                       *)
(***************************************************************************)
InBank(addr) == addr \in Addrs /\ (addr + 1) \in Addrs

\* A push that stores the value at the address RSP holds after the decrement.
pushAtNewRSP(c, value) ==
    LET rsp == GetU16(c.mem, RSP)
    IN  IF c.ok /\ InBank(rsp) /\ InBank(rsp - 2)
        THEN [c EXCEPT !.mem = SetU16(SetU16(c.mem, RSP, rsp - 2), rsp - 2, value),
                       !.st = Append(c.st, value % 65536)]
        ELSE [c EXCEPT !.ok = FALSE]

\* push pushes the given value onto the callstack and updates RSP.
push(c, value) ==
    LET rsp == GetU16(c.mem, RSP)
    IN  IF c.ok /\ InBank(rsp)
        THEN [c EXCEPT !.mem = SetU16(SetU16(c.mem, RSP, rsp - 2), rsp, value),
                       !.st = Append(c.st, value % 65536)]
        ELSE [c EXCEPT !.ok = FALSE]

\* A pop that reads the slot RSP pointed at before the increment.
popAtOldRSP(c) ==
    LET rsp == GetU16(c.mem, RSP)
        m1 == SetU16(c.mem, RSP, rsp + 2)
    IN  IF c.ok /\ InBank(rsp + 2) /\ InBank(rsp)
        THEN [c EXCEPT !.mem = m1,
                       !.v = GetU16(m1, rsp),
                       !.st = IF c.st = <<>> THEN <<>> ELSE SubSeq(c.st, 1, Len(c.st) - 1),
                       !.uf = c.uf \/ c.st = <<>>]
        ELSE [c EXCEPT !.ok = FALSE]

\* pop returns the top value from the callstack and updates RSP.
pop(c) ==
    LET rsp == GetU16(c.mem, RSP)
        m1 == SetU16(c.mem, RSP, rsp + 2)
    IN  IF c.ok /\ InBank(rsp + 2)
        THEN [c EXCEPT !.mem = m1,
                       !.v = GetU16(m1, rsp + 2),
                       !.st = IF c.st = <<>> THEN <<>> ELSE SubSeq(c.st, 1, Len(c.st) - 1),
                       !.uf = c.uf \/ c.st = <<>>]
        ELSE [c EXCEPT !.ok = FALSE]

(***************************************************************************)
(* Interrupt queue.                                                        *)
(***************************************************************************)
\* A queueInterrupt whose send does not look at the capacity of the channel.
queueInterruptUnbounded(m, q, msg) ==
    IF GetU16(m, RIA) = 0 THEN q ELSE Append(q, msg)

\* queueInterrupt adds a new message to the interrupt queue, provided
\* interrupts are enabled.  The channel send is non-blocking: with the
\* buffer full the default branch of the select drops the message.
queueInterrupt(m, q, msg) ==
    IF GetU16(m, RIA) = 0
    THEN q
    ELSE IF Len(q) < IntQueueCapacity THEN Append(q, msg) ELSE q

\* A checkIntQueue without the in-handler test, and one that takes the
\* newest message first.
checkIntQueueNested(c) ==
    IF c.q # <<>>
    THEN LET msg == Head(c.q)
             ria == GetU16(c.mem, RIA)
             c1 == push([c EXCEPT !.q = Tail(c.q)], GetU16(c.mem, RIP))
             c2 == push(c1, GetU16(c1.mem, R0))
         IN  [c2 EXCEPT !.mem = SetU16(SetU16(c2.mem, R0, msg), RIP, ria),
                        !.inH = TRUE,
                        !.dl = Append(c.dl, msg),
                        !.sv = [r0 |-> GetU16(c.mem, R0),
                                rip |-> GetU16(c.mem, RIP),
                                rsp |-> GetU16(c.mem, RSP),
                                rst |-> GetU8(c.mem, RST)],
                        !.intr = TRUE]
    ELSE c

checkIntQueueNewestFirst(c) ==
    IF c.inH
    THEN c
    ELSE IF c.q # <<>>
         THEN LET msg == c.q[Len(c.q)]
                  ria == GetU16(c.mem, RIA)
                  c1 == push([c EXCEPT !.q = SubSeq(c.q, 1, Len(c.q) - 1)],
                             GetU16(c.mem, RIP))
                  c2 == push(c1, GetU16(c1.mem, R0))
              IN  [c2 EXCEPT !.mem = SetU16(SetU16(c2.mem, R0, msg), RIP, ria),
                             !.inH = TRUE,
                             !.dl = Append(c.dl, msg),
                             !.sv = [r0 |-> GetU16(c.mem, R0),
                                     rip |-> GetU16(c.mem, RIP),
                                     rsp |-> GetU16(c.mem, RSP),
                                     rst |-> GetU8(c.mem, RST)],
                             !.intr = TRUE]
         ELSE c

\* A checkIntQueue that empties the queue when it takes a message.
checkIntQueueDiscarding(c) ==
    IF c.inH
    THEN c
    ELSE IF c.q # <<>>
         THEN LET msg == Head(c.q)
                  ria == GetU16(c.mem, RIA)
                  c1 == push([c EXCEPT !.q = <<>>], GetU16(c.mem, RIP))
                  c2 == push(c1, GetU16(c1.mem, R0))
              IN  [c2 EXCEPT !.mem = SetU16(SetU16(c2.mem, R0, msg), RIP, ria),
                             !.inH = TRUE,
                             !.dl = Append(c.dl, msg),
                             !.sv = [r0 |-> GetU16(c.mem, R0),
                                     rip |-> GetU16(c.mem, RIP),
                                     rsp |-> GetU16(c.mem, RSP),
                                     rst |-> GetU8(c.mem, RST)],
                             !.intr = TRUE]
         ELSE c

\* checkIntQueue checks if there are pending messages in the interrupt queue.
\* If so, it hands control over to the interrupt handler defined in RIA.
checkIntQueue(c) ==
    IF c.inH
    THEN c
    ELSE IF c.q # <<>>
         THEN LET msg == Head(c.q)
                  ria == GetU16(c.mem, RIA)
                  c1 == push([c EXCEPT !.q = Tail(c.q)], GetU16(c.mem, RIP))
                  c2 == push(c1, GetU16(c1.mem, R0))
              IN  [c2 EXCEPT !.mem = SetU16(SetU16(c2.mem, R0, msg), RIP, ria),
                             !.inH = TRUE,
                             !.dl = Append(c.dl, msg),
                             !.sv = [r0 |-> GetU16(c.mem, R0),
                                     rip |-> GetU16(c.mem, RIP),
                                     rsp |-> GetU16(c.mem, RSP),
                                     rst |-> GetU8(c.mem, RST)],
                             !.intr = TRUE]
         ELSE c

(***************************************************************************)
(* Instruction decoder.  An instruction in the code region is given by its *)
(* opcode and its operand descriptors [mode, type, x], x being the 16-bit  *)
(* literal or the register index held in the operand bytes.                *)
(***************************************************************************)
\* next8 reads the next byte at the instruction pointer and increments it.
next8(m) ==
    LET rip == GetU16(m, RIP)
    IN  [mem |-> SetU16(m, RIP, rip + 1),
         err |-> rip < 0 \/ rip >= UserMemoryCapacity]

\* next16 reads the next 16 bit value at the instruction pointer and increments it.
next16(m) ==
    LET rip == GetU16(m, RIP)
    IN  [mem |-> SetU16(m, RIP, rip + 2),
         err |-> rip < 0 \/ rip >= UserMemoryCapacity - 1]

\* Operand.Decode: one attribute byte, then the literal for constant modes.
\* d is [mem, err, ok, args]; the decoded operand is appended to d.args.
DecodeOperand(d, o) ==
    LET n1 == next8(d.mem)
        n2 == next16(n1.mem)
        regAddr == UserMemoryCapacity + (o.x % 16) * 2
    IN  IF n1.err
        THEN [d EXCEPT !.mem = n1.mem, !.err = TRUE]
        ELSE CASE o.mode = ImmediateConstant ->
                    IF n2.err
                    THEN [d EXCEPT !.mem = n2.mem, !.err = TRUE]
                    ELSE [d EXCEPT !.mem = n2.mem,
                                   !.args = Append(d.args,
                                       [type |-> o.type,
                                        addr |-> typedConst(o.type, o.x),
                                        val |-> typedConst(o.type, o.x)])]
               [] o.mode = IndirectConstant ->
                    IF n2.err
                    THEN [d EXCEPT !.mem = n2.mem, !.err = TRUE]
                    ELSE IF InBank(o.x)
                         THEN [d EXCEPT !.mem = n2.mem,
                                        !.args = Append(d.args,
                                            [type |-> o.type, addr |-> o.x,
                                             val |-> typedRead(n2.mem, o.type, o.x)])]
                         ELSE [d EXCEPT !.ok = FALSE]
               [] o.mode = ImmediateRegister ->
                    [d EXCEPT !.mem = n1.mem,
                              !.args = Append(d.args,
                                  [type |-> o.type, addr |-> regAddr,
                                   val |-> typedRead(n1.mem, o.type, regAddr)])]
               [] o.mode = IndirectRegister ->
                    IF InBank(GetU16(n1.mem, regAddr))
                    THEN [d EXCEPT !.mem = n1.mem,
                                   !.args = Append(d.args,
                                       [type |-> o.type,
                                        addr |-> GetU16(n1.mem, regAddr),
                                        val |-> typedRead(n1.mem, o.type,
                                                          GetU16(n1.mem, regAddr))])]
                    ELSE [d EXCEPT !.ok = FALSE]

RECURSIVE DecodeOperands(_, _, _)
DecodeOperands(d, ops, j) ==
    IF j > Len(ops) \/ d.err \/ ~d.ok
    THEN d
    ELSE DecodeOperands(DecodeOperand(d, ops[j]), ops, j + 1)

\* Instruction.Decode decodes the next instruction from the memory bank.
Decode(m, ins) ==
    LET n0 == next8(m)
    IN  IF n0.err
        THEN [mem |-> n0.mem, err |-> TRUE, ok |-> TRUE, args |-> <<>>]
        ELSE DecodeOperands([mem |-> n0.mem, err |-> FALSE, ok |-> TRUE, args |-> <<>>],
                            ins.args, 1)

\* A call that stores the return address at the address RSP holds after
\* the decrement.
callAtNewRSP(c, value) ==
    LET rsp == GetU16(c.mem, RSP)
        m1 == SetU16(c.mem, RSP, rsp - 2)
        m2 == SetU16(m1, rsp - 2, GetU16(m1, RIP))
    IN  IF c.ok /\ InBank(rsp) /\ InBank(rsp - 2)
        THEN [c EXCEPT !.mem = SetU16(m2, RIP, value),
                       !.st = Append(c.st, GetU16(m1, RIP))]
        ELSE [c EXCEPT !.ok = FALSE]

\* The body of CALL (and of CLEZ and CLNZ when taken): the instruction
\* pointer, which is past the operand, goes to the callstack and the
\* operand becomes the instruction pointer.
call(c, value) ==
    LET rsp == GetU16(c.mem, RSP)
        m1 == SetU16(c.mem, RSP, rsp - 2)
        m2 == SetU16(m1, rsp, GetU16(m1, RIP))
    IN  IF c.ok /\ InBank(rsp)
        THEN [c EXCEPT !.mem = SetU16(m2, RIP, value),
                       !.st = Append(c.st, GetU16(m1, RIP))]
        ELSE [c EXCEPT !.ok = FALSE]

(***************************************************************************)
(* Status register and arithmetic.                                         *)
(***************************************************************************)
\* Memory.rst returns the state of the given RST flag (a power of two).
rst(m, flag) == (m[RST] \div flag) % 2 = 1

\* Memory.setRST sets or unsets the given RST flag.
setRST(m, flag, v) ==
    IF v
    THEN IF rst(m, flag) THEN m ELSE [m EXCEPT ![RST] = m[RST] + flag]
    ELSE IF rst(m, flag) THEN [m EXCEPT ![RST] = m[RST] - flag] ELSE m

RSTCompare(m) == rst(m, 1)
SetRSTCompare(m, v) == setRST(m, 1, v)
RSTOverflow(m) == rst(m, 2)
SetRSTOverflow(m, v) == setRST(m, 2, v)
RSTDivideByZero(m) == rst(m, 4)
SetRSTDivideByZero(m, v) == setRST(m, 4, v)

\* Type.Limits: the range of values of an operand type.
Limits(type) ==
    CASE type = U8 -> [min |-> 0, max |-> 255]
      [] type = U16 -> [min |-> 0, max |-> 65535]
      [] type = I8 -> [min |-> -127, max |-> 127]
      [] type = I16 -> [min |-> -32767, max |-> 32767]

\* Go's integer division truncates toward zero and the remainder takes the
\* sign of the dividend.
GoQuo(x, y) ==
    IF (x >= 0) = (y > 0)
    THEN (IF x >= 0 THEN x ELSE -x) \div (IF y > 0 THEN y ELSE -y)
    ELSE -((IF x >= 0 THEN x ELSE -x) \div (IF y > 0 THEN y ELSE -y))

GoRem(x, y) == x - y * GoQuo(x, y)

\* int(math.Pow(x, y)) for a non-negative exponent and a result that an
\* int holds exactly.
RECURSIVE GoPow(_, _)
GoPow(x, y) == IF y = 0 THEN 1 ELSE x * GoPow(x, y - 1)

\* An overflow update that sets the flag on overflow and never clears it.
arithSticky(c, dst, vb) ==
    LET lim == Limits(dst.type)
        m1 == IF vb < lim.min \/ vb > lim.max THEN SetRSTOverflow(c.mem, TRUE) ELSE c.mem
    IN  [c EXCEPT !.mem = setVal(m1, dst.type, dst.addr, vb)]

\* The body of ADD, SUB, MUL and POW: the overflow flag is set from the
\* full-width result vb, then the result is stored at the destination.
arith(c, dst, vb) ==
    LET lim == Limits(dst.type)
        m1 == SetRSTOverflow(c.mem, vb < lim.min \/ vb > lim.max)
    IN  [c EXCEPT !.mem = setVal(m1, dst.type, dst.addr, vb)]

\* A division that stores a result also for a zero divisor.
divideStoresOnZero(c, dst, divisor, vb) ==
    IF divisor = 0
    THEN [c EXCEPT !.mem = SetRSTDivideByZero(setVal(c.mem, dst.type, dst.addr, 0), TRUE)]
    ELSE [c EXCEPT !.mem = SetRSTDivideByZero(setVal(c.mem, dst.type, dst.addr, vb),
                                              FALSE)]

\* The body of DIV and MOD: a zero divisor sets the divide-by-zero flag;
\* otherwise the result vb is stored, then the flag is cleared.
divide(c, dst, divisor, vb) ==
    IF divisor = 0
    THEN [c EXCEPT !.mem = SetRSTDivideByZero(c.mem, TRUE)]
    ELSE [c EXCEPT !.mem = SetRSTDivideByZero(setVal(c.mem, dst.type, dst.addr, vb),
                                              FALSE)]

\* A conditional jump that is taken when the compare flag is set.
jezInverted(c, value) ==
    IF RSTCompare(c.mem) THEN [c EXCEPT !.mem = SetU16(c.mem, RIP, value)] ELSE c

\* The body of JEZ: the jump is taken when the compare flag is clear.
jez(c, value) ==
    IF ~RSTCompare(c.mem) THEN [c EXCEPT !.mem = SetU16(c.mem, RIP, value)] ELSE c

\* devices.NewID creates an id with the given components: the 32-bit id
\* (manufacturer & 0xffff) << 16 | (serial & 0xffff), written as the pair of
\* its two 16-bit halves.
NewID(manufacturer, serial) == <<manufacturer % 65536, serial % 65536>>

\* Map.Find returns the index of the device with the given id, -1 if it
\* can't be found.
RECURSIVE FindFrom(_, _, _)
FindFrom(dm, id, i) ==
    IF i > Len(dm) THEN -1
    ELSE IF dm[i] = id THEN i - 1
    ELSE FindFrom(dm, id, i + 1)

\* A lookup that numbers the devices from the newest to the oldest.
FindNewestFirst(dm, id) ==
    IF FindFrom(dm, id, 1) = -1 THEN -1 ELSE Len(dm) - 1 - FindFrom(dm, id, 1)

Find(dm, id) == FindFrom(dm, id, 1)

\* The body of HWA.
hwa(c, a) ==
    IF Find(c.dm, NewID(a[2].val, a[3].val)) = -1
    THEN [c EXCEPT !.mem = SetRSTCompare(c.mem, FALSE)]
    ELSE [c EXCEPT !.mem = setVal(SetRSTCompare(c.mem, TRUE), a[1].type, a[1].addr,
                                  Find(c.dm, NewID(a[2].val, a[3].val)))]

(***************************************************************************)
(* Instruction execution.                                                  *)
(***************************************************************************)
\* The switch of CPU.Step on the decoded instruction; a holds the decoded
\* operands and t0 is instr.Args[0].Type.
Execute(c, op, a, t0) ==
    CASE op = "MOV" ->
            [c EXCEPT !.mem = setVal(c.mem, a[1].type, a[1].addr, a[2].val)]
      [] op = "PUSH" -> push(c, a[1].val)
      [] op = "POP" ->
            LET p == pop(c)
            IN  [p EXCEPT !.mem = setVal(p.mem, a[1].type, a[1].addr, p.v)]
      [] op = "JMP" -> [c EXCEPT !.mem = SetU16(c.mem, RIP, a[1].val)]
      [] op \in {"CALL"} -> call(c, a[1].val)
      [] op = "RET" ->
            LET p == pop(c)
            IN  [p EXCEPT !.mem = SetU16(p.mem, RIP, p.v)]
      [] op = "IRET" ->
            LET p1 == pop([c EXCEPT !.inH = FALSE])
                p2 == pop([p1 EXCEPT !.mem = setVal(p1.mem, t0, R0, p1.v)])
            IN  [p2 EXCEPT !.mem = SetU16(p2.mem, RIP, p2.v)]
      [] op = "ADD" -> arith(c, a[1], a[2].val + a[3].val)
      [] op = "SUB" -> arith(c, a[1], a[2].val - a[3].val)
      [] op = "MUL" -> arith(c, a[1], a[2].val * a[3].val)
      [] op = "POW" -> arith(c, a[1], GoPow(a[2].val, a[3].val))
      [] op = "DIV" ->
            divide(c, a[1], a[3].val,
                   IF a[3].val = 0 THEN 0 ELSE GoQuo(a[2].val, a[3].val))
      [] op = "MOD" ->
            divide(c, a[1], a[3].val,
                   IF a[3].val = 0 THEN 0 ELSE GoRem(a[2].val, a[3].val))
      [] op = "CEQ" -> [c EXCEPT !.mem = SetRSTCompare(c.mem, a[1].val = a[2].val)]
      [] op = "JEZ" -> jez(c, a[1].val)
      [] op = "HWA" -> hwa(c, a)
      [] op \in {"NOP", "HALT"} -> c

\* rand.Intn(n) draws from [0, n) and panics when n <= 0: the values a call
\* can return, 0 standing in where it returns none.
Intn(n) == IF n <= 0 THEN {0} ELSE 0..(n - 1)

\* The body of RNG, r being the value that c.rng.Intn returns.  The call
\* panics, after the flag has been cleared, when its argument is not positive.
rng(c, a, r) ==
    IF a[3].val - a[2].val < 0
    THEN [c EXCEPT !.mem = SetRSTOverflow(c.mem, TRUE)]
    ELSE IF a[3].val - a[2].val <= 0
         THEN [c EXCEPT !.mem = SetRSTOverflow(c.mem, FALSE), !.pn = TRUE]
         ELSE [c EXCEPT !.mem = setVal(SetRSTOverflow(c.mem, FALSE), a[1].type,
                                       a[1].addr, a[2].val + r)]

\* The states the switch of CPU.Step can leave.
Outcomes(c, op, a, t0) ==
    IF op = "RNG"
    THEN {rng(c, a, r) : r \in Intn(a[3].val - a[2].val)}
    ELSE {Execute(c, op, a, t0)}

(***************************************************************************)
(* The instructions a program may hold.                                    *)
(***************************************************************************)
Types == {U8, I16}
Literals == {0, 3}
RegIndex(addr) == (addr - R0) \div 2

Const(v) == [mode |-> ImmediateConstant, type |-> I16, x |-> v]
Reg(addr, t) == [mode |-> ImmediateRegister, type |-> t, x |-> RegIndex(addr)]

ConstT(t, v) == [mode |-> ImmediateConstant, type |-> t, x |-> v]

Instrs ==
    {[op |-> o, args |-> <<>>] : o \in {"NOP", "HALT", "RET", "IRET"}}
    \cup {[op |-> "PUSH", args |-> <<s>>] :
            s \in {Const(v) : v \in Literals} \cup {Reg(R0, t) : t \in Types}}
    \cup {[op |-> "POP", args |-> <<Reg(r, t)>>] : r \in {R0}, t \in Types}
    \cup {[op |-> o, args |-> <<Const(v)>>] : o \in {"JMP", "CALL"}, v \in Literals}
    \cup {[op |-> "MOV", args |-> <<Reg(r, t), Const(v)>>] :
            r \in {RIA}, t \in {I16}, v \in Literals}

\* The arithmetic, compare and branch instructions of the third
\* specification.  The literal 65535 is -1 at type I16, 65409 is -127 and
\* 32769 is -32767.
Dsts == {Reg(R0, t) : t \in {U8, U16, I8, I16}} \cup {Reg(RST, U8)}

ArithInstrs ==
    {[op |-> o, args |-> <<dst, x, y>>] :
        o \in {"ADD", "SUB", "MUL"}, dst \in Dsts,
        x \in {ConstT(I16, v) : v \in {127, 255, 32767, 65409, 32769}}
              \cup {ConstT(U16, 65535)},
        y \in {ConstT(I16, 1), ConstT(I16, 65535), ConstT(I16, 2)}}

PowInstrs ==
    {[op |-> "POW", args |-> <<dst, ConstT(I16, 2), ConstT(I16, y)>>] :
        dst \in Dsts, y \in {7, 8, 15, 16}}

DivInstrs ==
    {[op |-> o, args |-> <<dst, x, y>>] :
        o \in {"DIV", "MOD"}, dst \in {Reg(R0, I16), Reg(R0, U8), Reg(RST, U8)},
        x \in {ConstT(I16, 7), ConstT(I16, 65529), Reg(R0, I16)},
        y \in {ConstT(I16, 0), ConstT(I16, 2), ConstT(I16, 65532)}}

CmpInstrs ==
    {[op |-> "CEQ", args |-> <<x, y>>] :
        x \in {ConstT(I16, 0), ConstT(I16, 1), ConstT(U8, 257), Reg(R0, I16)},
        y \in {ConstT(I16, 0), ConstT(I16, 1), Reg(R0, U8)}}
    \cup {[op |-> "JEZ", args |-> <<ConstT(I16, v)>>] : v \in {0, 3, 65535}}

AluInstrs == ArithInstrs \cup PowInstrs \cup DivInstrs \cup CmpInstrs

\* The instructions of the specification of interrupts between compares.
FlagInstrs ==
    {[op |-> o, args |-> <<>>] : o \in {"NOP", "IRET"}}
    \cup {[op |-> "MOV", args |-> <<Reg(RIA, I16), Const(3)>>]}
    \cup {[op |-> "CEQ", args |-> <<ConstT(I16, 0), ConstT(I16, v)>>] : v \in {0, 1}}

\* The instructions of the device lookup specification; 65534 is the
\* manufacturer 0xfffe.
HwaInstrs ==
    {[op |-> "HWA", args |-> <<dst, ConstT(I16, m), ConstT(I16, n)>>] :
        dst \in {Reg(R0, I16), Reg(R0, U8), Reg(RST, U8)}, m \in {1, 65534},
        n \in {1, 2}}

\* The instructions of the random number specification; 65535 is -1 at
\* type I16.
RngInstrs ==
    {[op |-> "RNG", args |-> <<dst, ConstT(I16, lo), ConstT(I16, hi)>>] :
        dst \in {Reg(R0, I16), Reg(R0, U8)}, lo \in {0, 3, 65535}, hi \in {0, 3, 5}}

(***************************************************************************)
(* Assembler.  The nodes of a module are modelled as evaluation leaves     *)
(* them: a node is a label or an instruction [name, args], every operand   *)
(* an expression, i.e. a sequence of values.  A value has a type, its text *)
(* (value), the number ParseNumber yields for the text (0, with an error   *)
(* the callers ignore, when the text is no number) and, for a string, its  *)
(* code points (runes).  Evaluation reduces an operand to its leading type *)
(* descriptor and address mode markers followed by one value.              *)
(***************************************************************************)
Number(v) == [type |-> "Number", value |-> "", num |-> v, runes |-> <<>>]
AddressMode(m) == [type |-> "AddressMode", value |-> m, num |-> 0, runes |-> <<>>]
TypeDescriptor(t) == [type |-> "TypeDescriptor", value |-> t, num |-> 0, runes |-> <<>>]
String(r) == [type |-> "String", value |-> "", num |-> 0, runes |-> r]

Label(l) == [type |-> "Label", name |-> l, args |-> <<>>]
Instruction(name, args) == [type |-> "Instruction", name |-> name, args |-> args]

\* strings.ToUpper on the instruction names that occur in lower case.
ToUpper(s) ==
    CASE s = "ceq" -> "CEQ"
      [] s = "jez" -> "JEZ"
      [] OTHER -> s

\* arch.Opcode returns the opcode for the given instruction name.
Opcode(name) ==
    CASE ToUpper(name) = "NOP" -> 0
      [] ToUpper(name) = "HALT" -> 1
      [] ToUpper(name) = "MOV" -> 2
      [] ToUpper(name) = "PUSH" -> 3
      [] ToUpper(name) = "POP" -> 4
      [] ToUpper(name) = "ADD" -> 7
      [] ToUpper(name) = "CEQ" -> 19
      [] ToUpper(name) = "JMP" -> 25
      [] ToUpper(name) = "JEZ" -> 26
      [] ToUpper(name) = "CALL" -> 28
      [] ToUpper(name) = "RET" -> 31
      [] OTHER -> -1

\* arch.Argc returns the number of arguments the given instruction
\* requires, -1 if the opcode is not recognized.
Argc(opcode) ==
    CASE opcode \in {7} -> 3
      [] opcode \in {2, 19} -> 2
      [] opcode \in {25, 26, 28, 3, 4} -> 1
      [] opcode \in {0, 1, 31} -> 0
      [] OTHER -> -1

\* isAddrDirective: the difference between the value of an `address`
\* directive and the current output address.
isAddrDirective(n, addr) ==
    IF n.type # "Instruction" \/ n.name # "address"
    THEN [ok |-> FALSE, size |-> 0]
    ELSE LET expr == n.args[1]
             num == IF Len(expr) = 1 THEN expr[1] ELSE expr[2]
         IN  [ok |-> TRUE, size |-> num.num - addr]

\* isReservedDataDirective: the size of a `reserve` directive.
isReservedDataDirective(n) ==
    IF n.type # "Instruction" \/ n.name # "reserve"
    THEN [ok |-> FALSE, size |-> 0]
    ELSE LET expr == n.args[1]
             num == IF Len(expr) = 1 THEN expr[1] ELSE expr[2]
         IN  [ok |-> TRUE, size |-> num.num]

\* isDataDirective: the element size of a data directive.
isDataDirective(n) ==
    IF n.type # "Instruction"
    THEN [ok |-> FALSE, size |-> 0]
    ELSE CASE n.name = "d8" -> [ok |-> TRUE, size |-> 1]
           [] n.name = "d16" -> [ok |-> TRUE, size |-> 2]
           [] n.name = "d32" -> [ok |-> TRUE, size |-> 4]
           [] n.name = "d64" -> [ok |-> TRUE, size |-> 8]
           [] OTHER -> [ok |-> FALSE, size |-> 0]

\* encodedExprLen returns the byte size for the encoded version of the
\* given expression.
encodedExprLen(expr) ==
    IF \E i \in 1..Len(expr) : expr[i].type = "AddressMode" /\ expr[i].value = "r"
    THEN 1
    ELSE 3

\* encodedLen returns the byte size occupied by the given node's compiled
\* version; addr is the current output address of the assembler.
encodedLen(n, addr) ==
    IF isAddrDirective(n, addr).ok THEN isAddrDirective(n, addr).size
    ELSE IF isReservedDataDirective(n).ok THEN isReservedDataDirective(n).size
    ELSE IF isDataDirective(n).ok THEN Len(n.args) * isDataDirective(n).size
    ELSE IF n.type # "Instruction" THEN 0
    ELSE LET argc == Argc(Opcode(n.name))
         IN  1 + (IF argc >= 3 THEN encodedExprLen(n.args[3]) ELSE 0)
               + (IF argc >= 2 THEN encodedExprLen(n.args[2]) ELSE 0)
               + (IF argc >= 1 THEN encodedExprLen(n.args[1]) ELSE 0)

\* writeData writes v to out as size bytes, most significant byte first.
writeData(out, v, size) ==
    out \o [i \in 1..size |-> (v \div (2 ^ (8 * (size - i)))) % 256]

\* encodeDataDirective encodes the operands of a data directive: a string
\* yields one element for each of its code points, anything else the one
\* element ParseNumber makes of it.
RECURSIVE writeRunes(_, _, _)
writeRunes(out, runes, size) ==
    IF runes = <<>>
    THEN out
    ELSE writeRunes(writeData(out, Head(runes), size), Tail(runes), size)

RECURSIVE encodeDataOperands(_, _, _, _)
encodeDataOperands(out, args, i, size) ==
    IF i > Len(args)
    THEN out
    ELSE LET expr == args[i]
             value == IF expr[1].type = "AddressMode" THEN expr[2] ELSE expr[1]
         IN  encodeDataOperands(
                 IF value.type = "String"
                 THEN writeRunes(out, value.runes, size)
                 ELSE writeData(out, value.num, size),
                 args, i + 1, size)

encodeDataDirective(instr, size) == encodeDataOperands(<<>>, instr.args, 1, size)

\* The bytes encode appends for one operand of an ordinary instruction.
encodeOperand(expr) ==
    LET mode == IF Len(expr) = 2
                THEN CASE expr[1].value = "r" -> 2
                       [] expr[1].value = "$" -> 0
                       [] OTHER -> 1
                ELSE 1
        value == IF Len(expr) = 2 THEN expr[2] ELSE expr[1]
        num == value.num
    IN  IF mode = 2
        THEN <<(mode * 64 + (num % 64)) % 256>>
        ELSE <<(mode * 64) % 256, (num \div 256) % 256, num % 256>>

RECURSIVE encodeOperands(_, _, _)
encodeOperands(out, args, i) ==
    IF i > Len(args)
    THEN out
    ELSE encodeOperands(out \o encodeOperand(args[i]), args, i + 1)

\* encode encodes the given instruction into its final binary form; the
\* result is the code and the assembler's address, which an `address`
\* directive moves.
encode(instr, addr) ==
    IF isAddrDirective(instr, addr).ok
    THEN [address |-> addr + isAddrDirective(instr, addr).size, code |-> <<>>, err |-> FALSE]
    ELSE IF isReservedDataDirective(instr).ok
    THEN [address |-> addr,
          code |-> [i \in 1..isReservedDataDirective(instr).size |-> 0], err |-> FALSE]
    ELSE IF isDataDirective(instr).ok
    THEN [address |-> addr,
          code |-> encodeDataDirective(instr, isDataDirective(instr).size), err |-> FALSE]
    ELSE IF Opcode(instr.name) < 0
    THEN [address |-> addr, code |-> <<>>, err |-> TRUE]
    ELSE [address |-> addr,
          code |-> encodeOperands(<<Opcode(instr.name) % 256>>, instr.args, 1),
          err |-> FALSE]

NoSymbols == [l \in {} |-> 0]

\* emit copies the code to the output at the assembler's address, growing
\* the output as needed, and advances the address.
emit(a, code) ==
    IF Len(code) = 0
    THEN a
    ELSE LET size == IF a.address + Len(code) > Len(a.Instructions)
                     THEN a.address + Len(code)
                     ELSE Len(a.Instructions)
         IN  [a EXCEPT !.Instructions =
                           [i \in 1..size |->
                               IF i > a.address /\ i <= a.address + Len(code)
                               THEN code[i - a.address]
                               ELSE IF i <= Len(a.Instructions)
                                    THEN a.Instructions[i]
                                    ELSE 0],
                       !.address = a.address + Len(code)]

\* resolveLabels finds all label definitions and resolves their addresses;
\* label definitions are removed.  a is [nodes, address, symbols, err] and
\* a.follows remembers the index at which each label stood.
RECURSIVE resolveLabelsFrom(_, _)
resolveLabelsFrom(a, i) ==
    IF a.err \/ i > Len(a.nodes)
    THEN a
    ELSE LET n == a.nodes[i]
         IN  IF n.type # "Label"
             THEN resolveLabelsFrom(
                      [a EXCEPT !.address = a.address + encodedLen(n, a.address)],
                      i + 1)
             ELSE IF n.name \in DOMAIN a.symbols
                  THEN [a EXCEPT !.err = TRUE]
                  ELSE resolveLabelsFrom(
                           [a EXCEPT !.symbols = (n.name :> a.address) @@ a.symbols,
                                     !.follows = (n.name :> i) @@ a.follows,
                                     !.nodes = SubSeq(a.nodes, 1, i - 1)
                                               \o SubSeq(a.nodes, i + 1, Len(a.nodes))],
                           i)

resolveLabels(ns) ==
    resolveLabelsFrom([nodes |-> ns, address |-> 0, symbols |-> NoSymbols,
                       follows |-> NoSymbols, err |-> FALSE], 1)

\* compile compiles all given instructions.  a is [address, Instructions,
\* err]; a.emitted remembers for each node the address the encoder was at,
\* the address its code was written to and the address afterwards.
RECURSIVE compileFrom(_, _, _)
compileFrom(a, ns, i) ==
    IF a.err \/ i > Len(ns)
    THEN a
    ELSE LET e == encode(ns[i], a.address)
             a1 == emit([a EXCEPT !.address = e.address], e.code)
         IN  IF e.err
             THEN [a EXCEPT !.err = TRUE]
             ELSE compileFrom(
                      [a1 EXCEPT !.emitted = Append(a.emitted,
                                     [at |-> a.address, start |-> e.address,
                                      end |-> a1.address])],
                      ns, i + 1)

compile(ns) ==
    compileFrom([address |-> 0, Instructions |-> <<>>, emitted |-> <<>>,
                 err |-> FALSE], ns, 1)

(***************************************************************************)
(* The VM's decoder, reading the bytes of a program loaded into an         *)
(* otherwise zeroed memory bank.  The bank is given by the bytes that were *)
(* loaded: program[a + 1] is the byte at address a, so that a sequence is  *)
(* a program loaded at address 0.                                          *)
(***************************************************************************)
\* Memory.U8 and Memory.I8 of the loaded bank.
LoadedU8(program, addr) ==
    IF addr + 1 \in DOMAIN program THEN program[addr + 1] ELSE 0

LoadedI8(program, addr) ==
    IF LoadedU8(program, addr) >= 128
    THEN LoadedU8(program, addr) - 256
    ELSE LoadedU8(program, addr)

LoadedU16(program, addr) ==
    LoadedU8(program, addr) * 256 + LoadedU8(program, addr + 1)

LoadedI16(program, addr) ==
    IF LoadedU16(program, addr) >= 32768
    THEN LoadedU16(program, addr) - 65536
    ELSE LoadedU16(program, addr)

\* Memory.next8 and Memory.next16 with the instruction pointer made explicit.
loadedNext8(program, rip) ==
    [v |-> LoadedU8(program, rip), rip |-> (rip + 1) % 65536,
     err |-> rip >= UserMemoryCapacity]

loadedNext16(program, rip) ==
    [v |-> LoadedU16(program, rip), rip |-> (rip + 2) % 65536,
     err |-> rip >= UserMemoryCapacity - 1]

\* Known address modes of the decoder.
Constant == 0
Address == 1
Register == 2

\* The value behind an address, at the width and signedness of the instruction.
LoadedValue(program, addr, isWide, signed) ==
    IF signed
    THEN IF isWide THEN LoadedI16(program, addr) ELSE LoadedI8(program, addr)
    ELSE IF isWide THEN LoadedU16(program, addr) ELSE LoadedU8(program, addr)

\* The bank is a slice of MemoryCapacity bytes: a read of m[addr], and of
\* m[addr+1] for a wide value, panics outside it.
LoadedFault(addr, isWide) ==
    addr < 0 \/ addr + (IF isWide THEN 1 ELSE 0) >= MemoryCapacity

\* Operand.Decode decodes the next instruction operand.
OperandDecode(program, rip, isWide, signed) ==
    LET b == loadedNext8(program, rip)
        v == loadedNext16(program, b.rip)
        mode == b.v \div 64
        regAddr == (b.v % 64) * 2 + UserMemoryCapacity
        const == IF signed
                 THEN IF isWide
                      THEN IF v.v >= 32768 THEN v.v - 65536 ELSE v.v
                      ELSE IF v.v % 256 >= 128 THEN (v.v % 256) - 256 ELSE v.v % 256
                 ELSE IF isWide THEN v.v ELSE v.v % 256
    IN  IF b.err
        THEN [rip |-> b.rip, err |-> TRUE, panic |-> FALSE, Mode |-> 0,
              Address |-> 0, Value |-> 0]
        ELSE CASE mode = Constant ->
                    [rip |-> v.rip, err |-> v.err, panic |-> FALSE, Mode |-> mode,
                     Address |-> const, Value |-> const]
               [] mode = Address ->
                    [rip |-> v.rip, err |-> v.err, panic |-> FALSE, Mode |-> mode,
                     Address |-> v.v,
                     Value |-> LoadedValue(program, v.v, isWide, signed)]
               [] mode = Register ->
                    [rip |-> b.rip, err |-> FALSE,
                     panic |-> LoadedFault(regAddr, isWide), Mode |-> mode,
                     Address |-> regAddr,
                     Value |-> IF LoadedFault(regAddr, isWide) THEN 0
                               ELSE LoadedValue(program, regAddr, isWide, signed)]
               [] OTHER ->
                    [rip |-> b.rip, err |-> FALSE, panic |-> FALSE, Mode |-> mode,
                     Address |-> 0, Value |-> 0]

RECURSIVE OperandsDecode(_, _, _)
OperandsDecode(program, d, argc) ==
    IF d.err \/ d.panic \/ Len(d.Args) >= argc
    THEN d
    ELSE LET o == OperandDecode(program, d.rip, d.Wide, d.Signed)
         IN  OperandsDecode(program,
                 [d EXCEPT !.rip = o.rip, !.err = o.err, !.panic = o.panic,
                           !.Args = Append(d.Args,
                               [Mode |-> o.Mode, Address |-> o.Address,
                                Value |-> o.Value])],
                 argc)

\* Instruction.Decode decodes the next instruction from the memory bank.
InstructionDecode(program, rip) ==
    LET b == loadedNext8(program, rip)
        d == [IP |-> rip, rip |-> b.rip, err |-> b.err, panic |-> FALSE,
              Opcode |-> b.v % 64,
              Wide |-> (b.v \div 128) % 2 = 1, Signed |-> (b.v \div 64) % 2 = 0,
              Args |-> <<>>]
    IN  IF b.err \/ Argc(b.v % 64) < 0
        THEN [d EXCEPT !.err = TRUE]
        ELSE OperandsDecode(program, d, Argc(b.v % 64))

\* Nothing decoded yet: the instruction pointer is at address 0.
NoDecode ==
    [count |-> 0,
     instr |-> [IP |-> 0, rip |-> 0, err |-> FALSE, panic |-> FALSE, Opcode |-> 0,
                Wide |-> FALSE, Signed |-> FALSE, Args |-> <<>>]]

(***************************************************************************)
(* Peripherals: the clock and the 3.5" floppy drive.  Both run goroutines  *)
(* next to the CPU thread.  A goroutine is a record with a position pc;    *)
(* a channel is the sequence of its buffered values.  The drive's data is  *)
(* restricted, like mem, to the bytes that a transfer at TransferAddr      *)
(* moves to or from Addrs.                                                 *)
(***************************************************************************)
\* clock: known interrupt operations.
SetIntID == 0
Uptime == 1
SetTimer == 2

\* fd35: disk geometry.
TrackCount == 80
SectorsPerTrack == 18
BytesPerSector == 1024

\* fd35: known interrupt operations.
ReadState == 0
ReadSector == 1
WriteSector == 2

\* fd35: known device states.
StateNoMedia == 0
StateReady == 1
StateReadyWP == 2
StateBusy == 3

\* fd35: known error conditions.
ErrorNone == 0
ErrorBusy == 1
ErrorNoMedia == 2
ErrorProtected == 3
ErrorBadSector == 5
ErrorBroken == 6

\* The address programs transfer sectors to and from, the bytes of mem a
\* transfer covers, and the sectors and bytes of the disk that are modelled.
TransferAddr == UserMemoryCapacity - BytesPerSector
Window == {a \in Addrs : a >= TransferAddr /\ a < TransferAddr + BytesPerSector}
Offsets == {a - TransferAddr : a \in Window}
Sectors == {0, SectorsPerTrack + 1}
SectorInputs == Sectors \cup {TrackCount * SectorsPerTrack}
FileData == [s \in Sectors |-> [o \in Offsets |-> (s + o) % 256]]
NoData == [s \in Sectors |-> [o \in Offsets |-> 0]]

\* Memory.Write and Memory.Read of one sector at TransferAddr.
MemWrite(m, p) ==
    [a \in Addrs |-> IF a \in Window THEN p[a - TransferAddr] ELSE m[a]]

MemRead(m) == [o \in Offsets |-> m[TransferAddr + o]]

\* What a step of a peripheral reports: the thread that ran and what it
\* touched.
Touch(actor, touched) == [actor |-> actor, touch |-> touched]

\* A goroutine has panicked: the process is gone.
Crashed == "panic" \in devLast.touch

\* clock.New and clock.Device.Startup, Shutdown, Int.
ClockNew ==
    [intFunc |-> FALSE, intID |-> 0, endPoll |-> "nil", made |-> FALSE,
     newTimer |-> <<>>, down |-> FALSE]

PollNew == [pc |-> "select", armed |-> FALSE, id |-> 0]

ClockStartup(d) ==
    [d EXCEPT !.intFunc = TRUE, !.intID = 0, !.endPoll = "open",
              !.made = TRUE, !.newTimer = <<>>, !.down = FALSE]

\* close(d.endPoll) panics on a nil or closed channel.
ClockShutdownPanics(d) == d.endPoll # "open"

ClockShutdown(d) ==
    [d EXCEPT !.endPoll = "closed", !.intFunc = FALSE, !.intID = 0, !.down = TRUE]

\* The send on newTimer blocks while the buffer (of one) is full, and for
\* ever on the nil channel of a device that was never started.
ClockIntBlocks(d, m) ==
    GetU16(m, R0) = SetTimer /\ (~d.made \/ Len(d.newTimer) >= 1)

\* ms is the uptime that time.Since reports.
ClockInt(d, m, ms) ==
    CASE GetU16(m, R0) = SetIntID ->
            [clock |-> [d EXCEPT !.intID = GetU16(m, R1)], mem |-> m]
      [] GetU16(m, R0) = Uptime ->
            [clock |-> d,
             mem |-> SetU16(SetU16(m, GetU16(m, R1), (ms \div 65536) % 65536),
                            GetU16(m, R1) + 2, ms % 65536)]
      [] GetU16(m, R0) = SetTimer ->
            [clock |-> [d EXCEPT !.newTimer = Append(d.newTimer, GetU16(m, R1))],
             mem |-> m]
      [] OTHER -> [clock |-> d, mem |-> m]

\* fd35.New and fd35.Device.setReady, setBusy, Startup, Shutdown.
FdNew(file, readonly) ==
    [file |-> file, readonly |-> readonly, stored |-> FileData, storedOk |-> TRUE,
     data |-> NoData, loaded |-> FALSE, state |-> StateNoMedia, error |-> ErrorNone,
     track |-> 0, down |-> FALSE]

setReady(d) ==
    [d EXCEPT !.state = IF d.readonly THEN StateReadyWP ELSE StateReady,
              !.error = ErrorNone]

setBusy(d, m, read) ==
    IF d.state = StateReady \/ (d.state = StateReadyWP /\ read)
    THEN [fd |-> [d EXCEPT !.state = StateBusy], mem |-> SetRSTCompare(m, TRUE),
          ok |-> TRUE]
    ELSE [fd |-> [d EXCEPT !.error =
                     IF d.state = StateReadyWP /\ ~read THEN ErrorProtected
                     ELSE IF d.state = StateNoMedia THEN ErrorNoMedia
                     ELSE ErrorBusy],
          mem |-> SetRSTCompare(m, FALSE), ok |-> FALSE]

FdStartup(d) ==
    LET d1 == [d EXCEPT !.state = StateNoMedia, !.error = ErrorNone, !.track = 0,
                        !.down = FALSE]
    IN  IF ~d.file THEN d1
        ELSE IF ~d.storedOk
             THEN [d1 EXCEPT !.error = ErrorBroken, !.data = NoData, !.loaded = FALSE]
             ELSE setReady([d1 EXCEPT !.data = d.stored, !.loaded = TRUE])

FdShutdown(d) ==
    LET d1 == [d EXCEPT !.state = StateNoMedia, !.error = ErrorNone, !.track = 0,
                        !.down = TRUE]
        d2 == IF d.file
              THEN [d1 EXCEPT !.stored = d.data, !.storedOk = d.loaded]
              ELSE d1
    IN  [d2 EXCEPT !.data = NoData, !.loaded = FALSE]

\* readSector and writeSector up to the go statement: the result holds the
\* goroutine started, if any.
readSector(d, m) ==
    LET b == setBusy(d, m, TRUE)
    IN  IF ~b.ok THEN [fd |-> b.fd, mem |-> b.mem, go |-> <<>>]
        ELSE IF GetU16(m, R2) >= TrackCount * SectorsPerTrack
             THEN [fd |-> [b.fd EXCEPT !.error = ErrorBadSector], mem |-> b.mem,
                   go |-> <<>>]
             ELSE [fd |-> b.fd, mem |-> b.mem,
                   go |-> <<[kind |-> "read", pc |-> "seek",
                             addr |-> GetU16(m, R1), sector |-> GetU16(m, R2)]>>]

writeSector(d, m) ==
    LET b == setBusy(d, m, FALSE)
    IN  IF ~b.ok THEN [fd |-> b.fd, mem |-> b.mem, go |-> <<>>]
        ELSE IF GetU16(m, R1) >= TrackCount * SectorsPerTrack
             THEN [fd |-> [b.fd EXCEPT !.error = ErrorBadSector], mem |-> b.mem,
                   go |-> <<>>]
             ELSE [fd |-> b.fd, mem |-> b.mem,
                   go |-> <<[kind |-> "write", pc |-> "seek",
                             addr |-> GetU16(m, R2), sector |-> GetU16(m, R1)]>>]

FdInt(d, m) ==
    CASE GetU16(m, R0) = ReadState ->
            [fd |-> d, mem |-> SetU16(SetU16(m, R0, d.state), R1, d.error),
             go |-> <<>>]
      [] GetU16(m, R0) = ReadSector -> readSector(d, m)
      [] GetU16(m, R0) = WriteSector -> writeSector(d, m)
      [] OTHER -> [fd |-> d, mem |-> m, go |-> <<>>]

\* seek moves the head to the given track if needed.
seek(d, track) == IF d.track = track THEN d ELSE [d EXCEPT !.track = track]

\* No peripheral is connected.
NoDevices ==
    /\ clock = ClockNew
    /\ polls = <<>>
    /\ fd = FdNew(FALSE, FALSE)
    /\ workers = <<>>
    /\ devLast = Touch("cpu", {})
    /\ devOps = 0

(***************************************************************************)
(* The front passes of assemble over modules with scopes, constants and    *)
(* macros.  A name is a string; a scope, a qualified name and a key of the *)
(* symbol and macro tables are paths: sequences of names, which the source *)
(* joins with the path separator.  Macros have no parameters here, so the  *)
(* body of a macro is the whole of its list after the name.  Constants are *)
(* held in the form translateConst leaves them in, with a number for their *)
(* expression.                                                             *)
(***************************************************************************)
ScopeBegin(name) == [type |-> "ScopeBegin", name |-> name, args |-> <<>>]
ScopeEnd == [type |-> "ScopeEnd", name |-> "", args |-> <<>>]
ConstantNode(name, v) == [type |-> "Constant", name |-> name, args |-> <<<<Number(v)>>>>]
Macro(name, body) == [type |-> "Macro", name |-> name, args |-> body]
Conditional(cond, instr) == [type |-> "Conditional", name |-> "", args |-> <<cond, instr>>]
Ident(v) == [type |-> "Ident", value |-> v, num |-> 0, runes |-> <<>>]
Operator(v) == [type |-> "Operator", value |-> v, num |-> 0, runes |-> <<>>]

\* strings.ToLower on the names that occur.
ToLower(s) ==
    CASE s = "X" -> "x"
      [] s = "M" -> "m"
      [] s = "A" -> "a"
      [] OTHER -> s

LowerPath(p) == [i \in 1..Len(p) |-> ToLower(p[i])]

\* Scope.Join and the first result of Scope.Split.
Join(scope, name) == scope \o name

Split(scope) == IF scope = <<>> THEN <<>> ELSE SubSeq(scope, 1, Len(scope) - 1)

\* syntax.UniqueName: "$__%04x" of the counter after its increment.
UniqueNames ==
    <<"$__0001", "$__0002", "$__0003", "$__0004", "$__0005", "$__0006",
      "$__0007", "$__0008", "$__0009", "$__000a", "$__000b", "$__000c",
      "$__000d", "$__000e", "$__000f", "$__0010", "$__0011", "$__0012",
      "$__0013", "$__0014", "$__0015", "$__0016", "$__0017", "$__0018">>

UniqueName(v) == UniqueNames[v]

\* List.ReplaceAt replaces the node at index (counted from 1 here) with the
\* given set.
ReplaceAt(children, index, set) ==
    CASE Len(set) = 0 ->
            SubSeq(children, 1, index - 1) \o SubSeq(children, index + 1, Len(children))
      [] Len(set) # 0 /\ index > Len(children) ->
            children \o set
      [] Len(set) = 1 /\ index <= Len(children) ->
            [children EXCEPT ![index] = set[1]]
      [] OTHER ->
            SubSeq(children, 1, index - 1) \o set
            \o SubSeq(children, index + 1, Len(children))

\* fixScopeNames gives every ScopeBegin without a name the name of the
\* label right before it, or a unique name.  a is [nodes, uniq].
RECURSIVE fixScopeNamesFrom(_, _)
fixScopeNamesFrom(a, i) ==
    IF i > Len(a.nodes)
    THEN a
    ELSE LET n == a.nodes[i]
         IN  IF n.type = "Macro"
             THEN LET b == fixScopeNamesFrom([nodes |-> n.args, uniq |-> a.uniq], 1)
                  IN  fixScopeNamesFrom(
                          [nodes |-> [a.nodes EXCEPT ![i].args = b.nodes],
                           uniq |-> b.uniq], i + 1)
             ELSE IF n.type # "ScopeBegin" \/ n.name # ""
             THEN fixScopeNamesFrom(a, i + 1)
             ELSE IF i > 1 /\ a.nodes[i - 1].type = "Label"
             THEN fixScopeNamesFrom(
                      [a EXCEPT !.nodes[i].name = a.nodes[i - 1].name], i + 1)
             ELSE fixScopeNamesFrom(
                      [nodes |-> [a.nodes EXCEPT ![i].name = UniqueName(a.uniq + 1)],
                       uniq |-> a.uniq + 1], i + 1)

fixScopeNames(a) == fixScopeNamesFrom(a, 1)

\* createCompareInstr: the compare instruction for a condition
\* <value> <operator> <value>.
createCompareInstr(expr) ==
    LET index == CHOOSE i \in 1..Len(expr) :
                    /\ expr[i].type = "Operator"
                    /\ \A j \in 1..(i - 1) : expr[j].type # "Operator"
        name == CASE expr[index].value = "==" -> "ceq"
                  [] expr[index].value = "!=" -> "cne"
                  [] expr[index].value = "<" -> "clt"
                  [] expr[index].value = "<=" -> "cle"
                  [] expr[index].value = ">" -> "cgt"
                  [] expr[index].value = ">=" -> "cge"
    IN  Instruction(name, <<SubSeq(expr, 1, index - 1),
                            SubSeq(expr, index + 1, Len(expr))>>)

\* createConditionalJump: a JEZ and the label it jumps to.
createConditionalJump(labelName) ==
    <<Instruction("jez", <<<<AddressMode("$"), Ident(labelName)>>>>), Label(labelName)>>

\* translateIf replaces `if cond instr` by the compare, the jump past the
\* instruction, the instruction and the label.  a is [nodes, uniq].
RECURSIVE translateIfFrom(_, _)
translateIfFrom(a, i) ==
    IF i > Len(a.nodes)
    THEN a
    ELSE LET n == a.nodes[i]
         IN  IF n.type = "Macro"
             THEN LET b == translateIfFrom([nodes |-> n.args, uniq |-> a.uniq], 1)
                  IN  translateIfFrom(
                          [nodes |-> [a.nodes EXCEPT ![i].args = b.nodes],
                           uniq |-> b.uniq], i + 1)
             ELSE IF n.type # "Conditional"
             THEN translateIfFrom(a, i + 1)
             ELSE LET j == createConditionalJump(UniqueName(a.uniq + 1))
                  IN  translateIfFrom(
                          [nodes |-> ReplaceAt(a.nodes, i,
                                        <<createCompareInstr(n.args[1]), j[1],
                                          n.args[2], j[2]>>),
                           uniq |-> a.uniq + 1], i + 1)

translateIf(a) == translateIfFrom(a, 1)

\* hasSymbol returns true if the given symbol is defined as either a label,
\* constant or macro.
hasSymbol(syms, macs, name) ==
    LowerPath(name) \in DOMAIN syms \/ LowerPath(name) \in DOMAIN macs

NoMacros == [k \in {} |-> <<>>]

\* resolveMacros moves the macro definitions from the nodes to the macro
\* table.  a is [nodes, macros, symbols, scope, err, key].
RECURSIVE resolveMacrosFrom(_, _)
resolveMacrosFrom(a, i) ==
    IF i > Len(a.nodes)
    THEN a
    ELSE LET n == a.nodes[i]
         IN  CASE n.type = "ScopeBegin" ->
                    resolveMacrosFrom([a EXCEPT !.scope = Join(a.scope, <<n.name>>)], i + 1)
               [] n.type = "ScopeEnd" ->
                    resolveMacrosFrom([a EXCEPT !.scope = Split(a.scope)], i + 1)
               [] n.type = "Macro" ->
                    IF hasSymbol(a.symbols, a.macros, Join(a.scope, <<n.name>>))
                    THEN [a EXCEPT !.err = TRUE, !.key = Join(a.scope, <<n.name>>)]
                    ELSE resolveMacrosFrom(
                             [a EXCEPT !.macros = (LowerPath(Join(a.scope, <<n.name>>))
                                                     :> n.args) @@ a.macros,
                                       !.nodes = ReplaceAt(a.nodes, i, <<>>)],
                             i)
               [] OTHER -> resolveMacrosFrom(a, i + 1)

resolveMacros(ns, syms, macs) ==
    resolveMacrosFrom([nodes |-> ns, macros |-> macs, symbols |-> syms,
                       scope |-> <<>>, err |-> FALSE, key |-> <<>>], 1)

\* findMacro returns the macro with the given (scoped) name: the bare name
\* first, then the name in the scope and in every scope above it.
RECURSIVE findMacroUp(_, _, _)
findMacroUp(macs, name, scope) ==
    IF scope = <<>>
    THEN [ok |-> FALSE, body |-> <<>>]
    ELSE IF LowerPath(Join(Split(scope), <<name>>)) \in DOMAIN macs
         THEN [ok |-> TRUE, body |-> macs[LowerPath(Join(Split(scope), <<name>>))]]
         ELSE findMacroUp(macs, name, Split(scope))

findMacro(macs, name, scope) ==
    IF <<ToLower(name)>> \in DOMAIN macs
    THEN [ok |-> TRUE, body |-> macs[<<ToLower(name)>>]]
    ELSE IF Join(scope, <<ToLower(name)>>) \in DOMAIN macs
         THEN [ok |-> TRUE, body |-> macs[Join(scope, <<ToLower(name)>>)]]
         ELSE findMacroUp(macs, name, scope)

\* replaceMacroContents gives every scope of a copy of the body a unique
\* name.  a is [nodes, uniq].
RECURSIVE replaceMacroContentsFrom(_, _)
replaceMacroContentsFrom(a, i) ==
    IF i > Len(a.nodes)
    THEN a
    ELSE IF a.nodes[i].type = "ScopeBegin"
         THEN replaceMacroContentsFrom(
                  [nodes |-> [a.nodes EXCEPT ![i].name = UniqueName(a.uniq + 1)],
                   uniq |-> a.uniq + 1], i + 1)
         ELSE replaceMacroContentsFrom(a, i + 1)

replaceMacroContents(body, counter) ==
    replaceMacroContentsFrom([nodes |-> body, uniq |-> counter], 1)

\* replaceMacroInvocations replaces macro invocations with the macro's
\* body; the loop goes on behind the node the body was put at.  a is
\* [nodes, scope, uniq, expanded, over]; over says that more than MaxExpanded
\* invocations were replaced, which stands for a loop that does not end.
RECURSIVE replaceMacroInvocationsFrom(_, _, _)
replaceMacroInvocationsFrom(a, macs, i) ==
    IF i > Len(a.nodes)
    THEN a
    ELSE IF a.expanded > MaxExpanded
    THEN [a EXCEPT !.over = TRUE]
    ELSE LET n == a.nodes[i]
         IN  CASE n.type = "ScopeBegin" ->
                    replaceMacroInvocationsFrom(
                        [a EXCEPT !.scope = Join(a.scope, <<n.name>>)], macs, i + 1)
               [] n.type = "ScopeEnd" ->
                    replaceMacroInvocationsFrom(
                        [a EXCEPT !.scope = Split(a.scope)], macs, i + 1)
               [] n.type = "Instruction" /\ findMacro(macs, n.name, a.scope).ok ->
                    LET b == replaceMacroContents(findMacro(macs, n.name, a.scope).body,
                                                  a.uniq)
                    IN  replaceMacroInvocationsFrom(
                            [a EXCEPT !.nodes = ReplaceAt(a.nodes, i, b.nodes),
                                      !.uniq = b.uniq,
                                      !.expanded = a.expanded + 1],
                            macs, i + 1)
               [] OTHER -> replaceMacroInvocationsFrom(a, macs, i + 1)

replaceMacroInvocations(ns, macs, counter) ==
    replaceMacroInvocationsFrom([nodes |-> ns, scope |-> <<>>, uniq |-> counter,
                                 expanded |-> 0, over |-> FALSE], macs, 1)

\* resolveLabels for nodes with scopes: the key of a label is its name
\* joined to the scope it is in.  a is [nodes, address, symbols, scope,
\* err, key].
RECURSIVE resolveLabelsScopedFrom(_, _, _)
resolveLabelsScopedFrom(a, macs, i) ==
    IF i > Len(a.nodes)
    THEN a
    ELSE LET n == a.nodes[i]
         IN  CASE n.type = "ScopeBegin" ->
                    resolveLabelsScopedFrom(
                        [a EXCEPT !.scope = Join(a.scope, <<n.name>>)], macs, i + 1)
               [] n.type = "ScopeEnd" ->
                    resolveLabelsScopedFrom(
                        [a EXCEPT !.scope = Split(a.scope)], macs, i + 1)
               [] n.type = "Label" ->
                    IF hasSymbol(a.symbols, macs, Join(a.scope, <<n.name>>))
                    THEN [a EXCEPT !.err = TRUE, !.key = Join(a.scope, <<n.name>>)]
                    ELSE resolveLabelsScopedFrom(
                             [a EXCEPT !.symbols = (LowerPath(Join(a.scope, <<n.name>>))
                                                      :> a.address) @@ a.symbols,
                                       !.nodes = ReplaceAt(a.nodes, i, <<>>)],
                             macs, i)
               [] OTHER ->
                    resolveLabelsScopedFrom(
                        [a EXCEPT !.address = a.address + encodedLen(n, a.address)],
                        macs, i + 1)

resolveLabelsScoped(ns, syms, macs) ==
    resolveLabelsScopedFrom([nodes |-> ns, address |-> 0, symbols |-> syms,
                             scope |-> <<>>, err |-> FALSE, key |-> <<>>], macs, 1)

\* evaluateConstants with evaluateConstant: the key of a constant is its
\* name joined to the scope it is in.  a is [symbols, scope, err, key].
RECURSIVE evaluateConstantsFrom(_, _, _)
evaluateConstantsFrom(a, ns, i) ==
    IF i > Len(ns)
    THEN a
    ELSE LET n == ns[i]
         IN  CASE n.type = "ScopeBegin" ->
                    evaluateConstantsFrom(
                        [a EXCEPT !.scope = Join(a.scope, <<n.name>>)], ns, i + 1)
               [] n.type = "ScopeEnd" ->
                    evaluateConstantsFrom(
                        [a EXCEPT !.scope = Split(a.scope)], ns, i + 1)
               [] n.type = "Constant" ->
                    IF Len(n.args[1]) # 1 \/ n.args[1][1].type # "Number"
                       \/ LowerPath(Join(a.scope, <<n.name>>)) \in DOMAIN a.symbols
                    THEN [a EXCEPT !.err = TRUE, !.key = Join(a.scope, <<n.name>>)]
                    ELSE evaluateConstantsFrom(
                             [a EXCEPT !.symbols = (LowerPath(Join(a.scope, <<n.name>>))
                                                      :> n.args[1][1].num) @@ a.symbols],
                             ns, i + 1)
               [] OTHER -> evaluateConstantsFrom(a, ns, i + 1)

evaluateConstants(ns, syms) ==
    evaluateConstantsFrom([symbols |-> syms, scope |-> <<>>, err |-> FALSE,
                           key |-> <<>>], ns, 1)

\* The upward traversal of the scope tree in resolveReference.
RECURSIVE resolveReferenceUp(_, _, _)
resolveReferenceUp(syms, scope, name) ==
    IF scope = <<>>
    THEN [ok |-> FALSE, value |-> 0]
    ELSE IF LowerPath(Join(Split(scope), name)) \in DOMAIN syms
         THEN [ok |-> TRUE, value |-> syms[LowerPath(Join(Split(scope), name))]]
         ELSE resolveReferenceUp(syms, Split(scope), name)

\* A resolveReference that does not traverse the scope tree.
resolveReferenceExact(syms, addr, scope, name) ==
    IF name = <<"$$">>
    THEN [ok |-> TRUE, value |-> addr]
    ELSE IF LowerPath(Join(scope, name)) \in DOMAIN syms
         THEN [ok |-> TRUE, value |-> syms[LowerPath(Join(scope, name))]]
         ELSE [ok |-> FALSE, value |-> 0]

\* resolveReference finds the address or value for a given reference: in
\* the current scope, then upward in the scope tree.
resolveReference(syms, addr, scope, name) ==
    IF name = <<"$$">>
    THEN [ok |-> TRUE, value |-> addr]
    ELSE IF LowerPath(Join(scope, name)) \in DOMAIN syms
         THEN [ok |-> TRUE, value |-> syms[LowerPath(Join(scope, name))]]
         ELSE resolveReferenceUp(syms, scope, name)

(***************************************************************************)
(* Package eval: compile-time evaluation of expressions.  A value on the   *)
(* evaluation stack is an int64 or a bool (strings do not occur in the     *)
(* expressions evaluated here); an error is its message, a sequence of     *)
(* words, and <<>> is no error.                                            *)
(***************************************************************************)
Int64(v) == [t |-> "int64", v |-> v]
Bool(v) == [t |-> "bool", v |-> v]

MsgUnresolved == <<"reference", "to", "unresolved", "value">>
MsgUndefined == <<"reference", "to", "undefined", "value">>
MsgUnrecognized == <<"unrecognized", "operation">>
MsgCanNotEvaluate == <<"can", "not", "evaluate">>
MsgMissingOperand == <<"missing", "operand", "for", "operation">>
MsgMissingOperands == <<"missing", "operands", "for", "operation">>
MsgNoResult == <<"invalid", "expression;", "no", "result">>
MsgTooManyResults == <<"invalid", "expression;", "too", "many", "results">>
MsgInvalidType == <<"expression", "evaluates", "to", "invalid", "type">>
MsgOpeningParen == <<"mismatched", "opening", "parenthesis">>
MsgClosingParen == <<"mismatched", "closing", "parenthesis">>

\* strings.Index(s, substr) # -1, on words.
Contains(s, substr) ==
    \E i \in 1..(Len(s) - Len(substr) + 1) : SubSeq(s, i, i + Len(substr) - 1) = substr

Ok(v) == [err |-> <<>>, val |-> v]
Fail(msg) == [err |-> msg, val |-> Int64(0)]

\* _bool returns the canonical integer representation of the given bool.
_bool(x) == IF x THEN Int64(-1) ELSE Int64(0)

\* eq returns true if a == b; the short path returns the bool itself.
eq(a, b) ==
    IF a = b
    THEN Ok(Bool(TRUE))
    ELSE IF a.t = "int64" /\ b.t = "int64"
         THEN Ok(_bool(a.v = b.v))
         ELSE Fail(MsgCanNotEvaluate \o <<"==">>)

lt(a, b) ==
    IF a.t = "int64" /\ b.t = "int64" THEN Ok(_bool(a.v < b.v))
    ELSE Fail(MsgCanNotEvaluate \o <<"<">>)

le(a, b) ==
    IF a.t = "int64" /\ b.t = "int64" THEN Ok(_bool(a.v <= b.v))
    ELSE Fail(MsgCanNotEvaluate \o <<"<=">>)

gt(a, b) ==
    IF a.t = "int64" /\ b.t = "int64" THEN Ok(_bool(a.v > b.v))
    ELSE Fail(MsgCanNotEvaluate \o <<">">>)

ge(a, b) ==
    IF a.t = "int64" /\ b.t = "int64" THEN Ok(_bool(a.v >= b.v))
    ELSE Fail(MsgCanNotEvaluate \o <<">=">>)

add(a, b) ==
    IF a.t = "int64" /\ b.t = "int64" THEN Ok(Int64(a.v + b.v))
    ELSE Fail(MsgCanNotEvaluate \o <<"+">>)

sub(a, b) ==
    IF a.t = "int64" /\ b.t = "int64" THEN Ok(Int64(a.v - b.v))
    ELSE Fail(MsgCanNotEvaluate \o <<"-">>)

mul(a, b) ==
    IF a.t = "int64" /\ b.t = "int64" THEN Ok(Int64(a.v * b.v))
    ELSE Fail(MsgCanNotEvaluate \o <<"*">>)

\* apply performs the given arithmetic or compare operation on operands a
\* and b; of the operations it knows, those that occur here.
apply(op, a, b) ==
    CASE op = "+" -> add(a, b)
      [] op = "-" -> sub(a, b)
      [] op = "*" -> mul(a, b)
      [] op = "==" -> eq(a, b)
      [] op = "<" -> lt(a, b)
      [] op = "<=" -> le(a, b)
      [] op = ">" -> gt(a, b)
      [] op = ">=" -> ge(a, b)
      [] OTHER -> Fail(MsgUnrecognized \o <<op>>)

\* opProperties: the precedence of an operator and whether it is
\* left-associative.
opProperties(v) ==
    CASE v \in {"(", ")"} -> [p |-> 1, left |-> TRUE]
      [] v \in {"u+", "u-", "u^"} -> [p |-> 3, left |-> FALSE]
      [] v \in {"+", "-"} -> [p |-> 3, left |-> TRUE]
      [] v \in {"*", "/", "%"} -> [p |-> 4, left |-> TRUE]
      [] v \in {">>", "<<"} -> [p |-> 5, left |-> TRUE]
      [] v \in {"<=", ">=", "<", ">"} -> [p |-> 6, left |-> TRUE]
      [] v \in {"!=", "=="} -> [p |-> 7, left |-> TRUE]
      [] v = "&" -> [p |-> 8, left |-> TRUE]
      [] v = "^" -> [p |-> 9, left |-> FALSE]
      [] v = "|" -> [p |-> 10, left |-> TRUE]

\* postfixHandleOp handles the operator n according to the Shunting yard
\* rules.  st is [out, ops, err].
RECURSIVE postfixCloseParen(_)
postfixCloseParen(st) ==
    IF st.ops = <<>>
    THEN [st EXCEPT !.err = MsgClosingParen]
    ELSE LET top == st.ops[Len(st.ops)]
             rest == SubSeq(st.ops, 1, Len(st.ops) - 1)
         IN  IF top.value = "("
             THEN [st EXCEPT !.ops = rest]
             ELSE postfixCloseParen([st EXCEPT !.out = Append(st.out, top), !.ops = rest])

RECURSIVE postfixPop(_, _)
postfixPop(st, n) ==
    IF st.ops = <<>>
    THEN st
    ELSE LET top == st.ops[Len(st.ops)]
             np == opProperties(n.value)
             tp == opProperties(top.value)
         IN  IF np.p < tp.p \/ (np.p = tp.p /\ np.left)
             THEN postfixPop([st EXCEPT !.out = Append(st.out, top),
                                        !.ops = SubSeq(st.ops, 1, Len(st.ops) - 1)], n)
             ELSE st

postfixPush(st, n) == [st EXCEPT !.ops = Append(st.ops, n)]

postfixHandleOp(st, n) ==
    IF n.value = "("
    THEN [st EXCEPT !.ops = Append(st.ops, n)]
    ELSE IF n.value = ")"
    THEN postfixCloseParen(st)
    ELSE IF st.ops = <<>> \/ st.ops[Len(st.ops)].value = "("
    THEN [st EXCEPT !.ops = Append(st.ops, n)]
    ELSE IF \/ opProperties(n.value).p > opProperties(st.ops[Len(st.ops)].value).p
            \/ /\ opProperties(n.value).p = opProperties(st.ops[Len(st.ops)].value).p
               /\ ~opProperties(n.value).left
    THEN [st EXCEPT !.ops = Append(st.ops, n)]
    ELSE postfixPush(postfixPop(st, n), n)

\* toPostfix converts the infix expression into postfix notation.
RECURSIVE toPostfixFrom(_, _, _)
toPostfixFrom(st, expr, i) ==
    IF st.err # <<>> \/ i > Len(expr)
    THEN st
    ELSE IF expr[i].type = "Operator"
         THEN toPostfixFrom(postfixHandleOp(st, expr[i]), expr, i + 1)
         ELSE toPostfixFrom([st EXCEPT !.out = Append(st.out, expr[i])], expr, i + 1)

RECURSIVE toPostfixFlush(_)
toPostfixFlush(st) ==
    IF st.err # <<>> \/ st.ops = <<>>
    THEN st
    ELSE IF st.ops[Len(st.ops)].value = "("
         THEN [st EXCEPT !.err = MsgOpeningParen]
         ELSE toPostfixFlush([st EXCEPT !.out = Append(st.out, st.ops[Len(st.ops)]),
                                        !.ops = SubSeq(st.ops, 1, Len(st.ops) - 1)])

toPostfix(expr) ==
    toPostfixFlush(toPostfixFrom([out |-> <<>>, ops |-> <<>>, err |-> <<>>], expr, 1))

\* evalPostfix evaluates the postfix expression.  st is [stack, err]; an
\* operator that finds fewer than two values on the stack is taken as a
\* unary operation on 0 and the value.  pushed puts the outcome vc of an
\* operation, or of a lookup, on the stack rest.
pushed(st, rest, vc) ==
    IF vc.err # <<>>
    THEN [st EXCEPT !.err = vc.err]
    ELSE [st EXCEPT !.stack = Append(rest, vc.val)]

\* The value that a reference to name has, or the error.
reference(r, name) ==
    IF r.ok THEN Ok(Int64(r.value)) ELSE Fail(MsgUnresolved \o <<name>>)

RECURSIVE evalPostfixFrom(_, _, _, _, _, _)
evalPostfixFrom(st, expr, i, syms, addr, scope) ==
    IF st.err # <<>> \/ i > Len(expr)
    THEN st
    ELSE CASE expr[i].type \in {"AddressMode", "TypeDescriptor"} ->
                evalPostfixFrom(st, expr, i + 1, syms, addr, scope)
           [] expr[i].type = "Ident" ->
                evalPostfixFrom(
                    pushed(st, st.stack,
                           reference(resolveReference(syms, addr, scope,
                                                      <<ToLower(expr[i].value)>>),
                                     expr[i].value)),
                    expr, i + 1, syms, addr, scope)
           [] expr[i].type = "Number" ->
                evalPostfixFrom([st EXCEPT !.stack = Append(st.stack, Int64(expr[i].num))],
                                expr, i + 1, syms, addr, scope)
           [] OTHER ->
                IF Len(st.stack) < 2 /\ expr[i].type = "Operator" /\ Len(st.stack) < 1
                THEN [st EXCEPT !.err = MsgMissingOperand \o <<expr[i].value>>]
                ELSE IF Len(st.stack) < 2 /\ expr[i].type # "Operator"
                THEN [st EXCEPT !.err = MsgMissingOperands \o <<expr[i].value>>]
                ELSE IF Len(st.stack) < 2
                THEN evalPostfixFrom(
                         pushed(st, SubSeq(st.stack, 1, Len(st.stack) - 1),
                                apply(expr[i].value, Int64(0), st.stack[Len(st.stack)])),
                         expr, i + 1, syms, addr, scope)
                ELSE evalPostfixFrom(
                         pushed(st, SubSeq(st.stack, 1, Len(st.stack) - 2),
                                apply(expr[i].value, st.stack[Len(st.stack) - 1],
                                      st.stack[Len(st.stack)])),
                         expr, i + 1, syms, addr, scope)

\* The result is [err, val]: val is the Number node for the int64 left on
\* the stack st.
evalPostfixResult(st) ==
    IF st.err # <<>> THEN [err |-> st.err, val |-> Number(0)]
    ELSE IF Len(st.stack) = 0 THEN [err |-> MsgNoResult, val |-> Number(0)]
    ELSE IF Len(st.stack) > 1 THEN [err |-> MsgTooManyResults, val |-> Number(0)]
    ELSE IF st.stack[1].t # "int64"
    THEN [err |-> MsgInvalidType \o <<st.stack[1].t>>, val |-> Number(0)]
    ELSE [err |-> <<>>, val |-> Number(st.stack[1].v)]

evalPostfix(expr, syms, addr, scope) ==
    evalPostfixResult(
        evalPostfixFrom([stack |-> <<>>, err |-> <<>>], expr, 1, syms, addr, scope))

\* The address mode markers and type descriptors that evalExpression
\* preserves: those in front of the first other node.
RECURSIVE Markers(_, _)
Markers(postfix, i) ==
    IF i > Len(postfix) \/ postfix[i].type \notin {"AddressMode", "TypeDescriptor"}
    THEN <<>>
    ELSE <<postfix[i]>> \o Markers(postfix, i + 1)

\* evalExpression reduces the expression to its value.  The result is
\* [err, expr]; postfix is the expression in postfix notation and value
\* what it evaluates to.
evalExpressionValue(n, postfix, value) ==
    IF value.err # <<>> THEN [err |-> value.err, expr |-> n]
    ELSE [err |-> <<>>, expr |-> Markers(postfix.out, 1) \o <<value.val>>]

evalExpressionPostfix(n, postfix, syms, addr, scope) ==
    IF postfix.err # <<>> THEN [err |-> postfix.err, expr |-> n]
    ELSE evalExpressionValue(n, postfix, evalPostfix(postfix.out, syms, addr, scope))

evalExpression(n, syms, addr, scope) ==
    evalExpressionPostfix(n, toPostfix(n), syms, addr, scope)

\* Evaluate evaluates the expressions in the given instruction; an error
\* whose message holds "reference to undefined value" is dropped.  a is
\* [err, instr] and r what the i-th expression evaluates to.
RECURSIVE EvaluateFrom(_, _, _, _, _)
EvaluateArg(a, i, r, syms, addr, scope) ==
    IF r.err # <<>> /\ ~Contains(r.err, MsgUndefined)
    THEN [a EXCEPT !.err = r.err]
    ELSE EvaluateFrom([a EXCEPT !.instr.args[i] = r.expr], i + 1, syms, addr, scope)

EvaluateFrom(a, i, syms, addr, scope) ==
    IF i > Len(a.instr.args)
    THEN a
    ELSE EvaluateArg(a, i, evalExpression(a.instr.args[i], syms, addr, scope),
                     syms, addr, scope)

Evaluate(instr, syms, addr, scope) ==
    EvaluateFrom([err |-> <<>>, instr |-> instr], 1, syms, addr, scope)

\* The node i becomes the evaluated instruction r.instr and the address
\* moves on behind it; r.err ends the pass.
evaluated(a, i, r) ==
    [a EXCEPT !.nodes[i] = r.instr,
              !.address = a.address + encodedLen(r.instr, a.address),
              !.err = r.err]

\* evaluateReservedAndAddress evaluates the operands of the address and
\* reserve directives, before labels are resolved.  a is [nodes, address,
\* scope, err].
RECURSIVE evaluateReservedAndAddressFrom(_, _, _)
evaluateReservedAndAddressFrom(a, syms, i) ==
    IF a.err # <<>> \/ i > Len(a.nodes)
    THEN a
    ELSE CASE a.nodes[i].type = "ScopeBegin" ->
                evaluateReservedAndAddressFrom(
                    [a EXCEPT !.scope = Join(a.scope, <<a.nodes[i].name>>)], syms, i + 1)
           [] a.nodes[i].type = "ScopeEnd" ->
                evaluateReservedAndAddressFrom(
                    [a EXCEPT !.scope = Split(a.scope)], syms, i + 1)
           [] /\ a.nodes[i].type = "Instruction"
              /\ ToLower(a.nodes[i].name) \in {"address", "reserve"} ->
                evaluateReservedAndAddressFrom(
                    evaluated(a, i, Evaluate(a.nodes[i], syms, a.address, a.scope)),
                    syms, i + 1)
           [] OTHER ->
                evaluateReservedAndAddressFrom(
                    [a EXCEPT !.address = a.address + encodedLen(a.nodes[i], a.address)],
                    syms, i + 1)

evaluateReservedAndAddress(ns, syms) ==
    evaluateReservedAndAddressFrom([nodes |-> ns, address |-> 0, scope |-> <<>>,
                                    err |-> <<>>], syms, 1)

\* evaluateInstructions evaluates the operands of every instruction.  a is
\* [nodes, address, scope, err].
RECURSIVE evaluateInstructionsFrom(_, _, _)
evaluateInstructionsFrom(a, syms, i) ==
    IF a.err # <<>> \/ i > Len(a.nodes)
    THEN a
    ELSE CASE a.nodes[i].type = "ScopeBegin" ->
                evaluateInstructionsFrom(
                    [a EXCEPT !.scope = Join(a.scope, <<a.nodes[i].name>>)], syms, i + 1)
           [] a.nodes[i].type = "ScopeEnd" ->
                evaluateInstructionsFrom(
                    [a EXCEPT !.scope = Split(a.scope)], syms, i + 1)
           [] a.nodes[i].type = "Instruction" ->
                evaluateInstructionsFrom(
                    evaluated(a, i, Evaluate(a.nodes[i], syms, a.address, a.scope)),
                    syms, i + 1)
           [] OTHER -> evaluateInstructionsFrom(a, syms, i + 1)

evaluateInstructions(ns, syms) ==
    evaluateInstructionsFrom([nodes |-> ns, address |-> 0, scope |-> <<>>,
                              err |-> <<>>], syms, 1)

(***************************************************************************)
(* Package ar: the archive and its file format.  A stream is a sequence    *)
(* of bytes; a read gives [s, v, err]: the rest of the stream, the value   *)
(* read, and whether the stream ended early (the panic of check).          *)
(***************************************************************************)
\* binary.Write(w, endian, v) for an unsigned integer type of w bytes: the
\* conversion uintN(v) keeps the low bits, the low byte goes first.
RECURSIVE writeUint(_, _)
writeUint(v, w) == IF w = 0 THEN <<>> ELSE <<v % 256>> \o writeUint(v \div 256, w - 1)

writeU8(v) == writeUint(v, 1)

writeU16BigEndian(v) == <<(v \div 256) % 256, v % 256>>

writeU16(v) == writeUint(v, 2)

writeU32(v) == writeUint(v, 4)

writeBytes(p) == writeU16(Len(p)) \o p

\* The little-endian value of the bytes.
RECURSIVE littleEndian(_)
littleEndian(bs) == IF bs = <<>> THEN 0 ELSE bs[1] + 256 * littleEndian(Tail(bs))

\* binary.Read(r, endian, &v) for an unsigned integer type of w bytes.
readUint(s, w) ==
    IF Len(s) < w
    THEN [s |-> <<>>, v |-> 0, err |-> TRUE]
    ELSE [s |-> SubSeq(s, w + 1, Len(s)), v |-> littleEndian(SubSeq(s, 1, w)), err |-> FALSE]

readU8(s) == readUint(s, 1)

readU16(s) == readUint(s, 2)

readU32(s) == readUint(s, 4)

\* readBytes: sz is what readU16 gave.
readFull(sz) ==
    IF sz.err \/ Len(sz.s) < sz.v
    THEN [s |-> <<>>, v |-> <<>>, err |-> TRUE]
    ELSE [s |-> SubSeq(sz.s, sz.v + 1, Len(sz.s)), v |-> SubSeq(sz.s, 1, sz.v), err |-> FALSE]

readBytes(s) == readFull(readU16(s))

\* The widths of the fields of DebugData in the file, in their order:
\* Address, File, Line, Col, Offset, Flags.
DebugDataWidths == <<2, 1, 2, 2, 4, 1>>

DebugData(addr, file, line, col, offset, flags) ==
    [Address |-> addr, File |-> file, Line |-> line, Col |-> col,
     Offset |-> offset, Flags |-> flags]

\* (d *DebugData) write.
DebugDataWrite(d) ==
    writeU16(d.Address) \o writeU8(d.File) \o writeU16(d.Line) \o writeU16(d.Col)
    \o writeU32(d.Offset) \o writeU8(d.Flags)

\* acc is [s, vs, err]: the stream, the values read so far, and the error;
\* r is the read that follows.
readNext(acc, r) == [s |-> r.s, vs |-> Append(acc.vs, r.v), err |-> r.err]

RECURSIVE readFields(_, _)
readFields(acc, i) ==
    IF i > Len(DebugDataWidths)
    THEN acc
    ELSE IF readUint(acc.s, DebugDataWidths[i]).err
    THEN [acc EXCEPT !.err = TRUE]
    ELSE readFields(readNext(acc, readUint(acc.s, DebugDataWidths[i])), i + 1)

\* The fields that were not read keep the zero value.
fieldsRead(acc) ==
    [s |-> acc.s, err |-> acc.err,
     v |-> DebugData(IF Len(acc.vs) >= 1 THEN acc.vs[1] ELSE 0,
                     IF Len(acc.vs) >= 2 THEN acc.vs[2] ELSE 0,
                     IF Len(acc.vs) >= 3 THEN acc.vs[3] ELSE 0,
                     IF Len(acc.vs) >= 4 THEN acc.vs[4] ELSE 0,
                     IF Len(acc.vs) >= 5 THEN acc.vs[5] ELSE 0,
                     IF Len(acc.vs) >= 6 THEN acc.vs[6] ELSE 0)]

\* (d *DebugData) read.
DebugDataRead(s) == fieldsRead(readFields([s |-> s, vs |-> <<>>, err |-> FALSE], 1))

\* n entries of the value zero.
Zeros(n, zero) == [i \in 1..n |-> zero]

\* The loop over d.Files with n entries still to read; the entries behind
\* a failed read stay empty.
RECURSIVE readFiles(_, _)
readFiles(acc, n) ==
    IF n = 0
    THEN acc
    ELSE IF readBytes(acc.s).err
    THEN [acc EXCEPT !.err = TRUE, !.vs = acc.vs \o Zeros(n, <<>>)]
    ELSE readFiles(readNext(acc, readBytes(acc.s)), n - 1)

\* The loop over d.Symbols with n entries still to read.
RECURSIVE readSymbols(_, _)
readSymbols(acc, n) ==
    IF n = 0
    THEN acc
    ELSE IF DebugDataRead(acc.s).err
    THEN [acc EXCEPT !.err = TRUE,
                     !.vs = Append(acc.vs, DebugDataRead(acc.s).v)
                            \o Zeros(n - 1, DebugData(0, 0, 0, 0, 0, 0))]
    ELSE readSymbols(readNext(acc, DebugDataRead(acc.s)), n - 1)

RECURSIVE writeFiles(_)
writeFiles(fs) == IF fs = <<>> THEN <<>> ELSE writeBytes(Head(fs)) \o writeFiles(Tail(fs))

RECURSIVE writeSymbols(_)
writeSymbols(ss) ==
    IF ss = <<>> THEN <<>> ELSE DebugDataWrite(Head(ss)) \o writeSymbols(Tail(ss))

\* (d *Debug) write.
DebugWrite(d) ==
    writeU8(Len(d.Files)) \o writeFiles(d.Files)
    \o writeU16(Len(d.Symbols)) \o writeSymbols(d.Symbols)

\* (d *Debug) read, in its steps: the file count n, the files fs, the
\* symbol count n, the symbols ss.  The result is [s, v, err] with the
\* debug table as v; a slice whose count was not read stays as d had it.
debugSymbols(d, fs, ss) ==
    [s |-> ss.s, err |-> ss.err, v |-> [Files |-> fs.vs, Symbols |-> ss.vs]]

debugSymbolCount(d, fs, n) ==
    IF n.err
    THEN [s |-> <<>>, err |-> TRUE, v |-> [Files |-> fs.vs, Symbols |-> d.Symbols]]
    ELSE debugSymbols(d, fs, readSymbols([s |-> n.s, vs |-> <<>>, err |-> FALSE], n.v))

debugFiles(d, fs) ==
    IF fs.err
    THEN [s |-> <<>>, err |-> TRUE, v |-> [Files |-> fs.vs, Symbols |-> d.Symbols]]
    ELSE debugSymbolCount(d, fs, readU16(fs.s))

debugFileCount(d, n) ==
    IF n.err
    THEN [s |-> <<>>, err |-> TRUE, v |-> d]
    ELSE debugFiles(d, readFiles([s |-> n.s, vs |-> <<>>, err |-> FALSE], n.v))

DebugRead(d, s) == debugFileCount(d, readU8(s))

\* compress/gzip, as far as the archive depends on it: the writer puts the
\* magic number in front of the data and the size of the data behind it,
\* the reader rejects a stream without the magic number and hands out the
\* bytes in between.
GzipMagic == <<31, 139>>

gzipWrite(data) == GzipMagic \o data \o writeU32(Len(data))

gzipRead(stream) ==
    IF Len(stream) < Len(GzipMagic) + 4 \/ SubSeq(stream, 1, Len(GzipMagic)) # GzipMagic
    THEN [err |-> TRUE, data |-> <<>>]
    ELSE [err |-> FALSE, data |-> SubSeq(stream, Len(GzipMagic) + 1, Len(stream) - 4)]

\* Archive.Save: the bytes written to the stream.
ArchiveSave(a) == gzipWrite(DebugWrite(a.Debug) \o writeBytes(a.Instructions))

\* Archive.Load into the archive a: the result is [archive, err].
loadInstructions(a, d, p) ==
    [archive |-> [Debug |-> d.v,
                 Instructions |-> IF p.err THEN a.Instructions ELSE p.v],
     err |-> p.err]

loadDebug(a, d) ==
    IF d.err
    THEN [archive |-> [Debug |-> d.v, Instructions |-> a.Instructions], err |-> TRUE]
    ELSE loadInstructions(a, d, readBytes(d.s))

loadStream(a, gz) ==
    IF gz.err
    THEN [archive |-> a, err |-> TRUE]
    ELSE loadDebug(a, DebugRead(a.Debug, gz.data))

ArchiveLoad(a, stream) == loadStream(a, gzipRead(stream))

\* ar.New.
NewArchive == [Debug |-> [Files |-> <<>>, Symbols |-> <<>>], Instructions |-> <<>>]

\* No archive was saved or loaded and no assembly has run.
NoLoad == [archive |-> NewArchive, err |-> FALSE, loaded |-> FALSE]

NoConnect == [id |-> <<0, 0>>, ok |-> FALSE, calls |-> 0]

NoProc ==
    /\ ar = NewArchive
    /\ buf = <<>>
    /\ br = NoLoad
    /\ runs = <<>>
    /\ devices = <<>>
    /\ connected = NoConnect

NoErr == [pass |-> "", key |-> <<>>]
NoFound == [scope |-> <<>>, name |-> <<>>, ok |-> FALSE, value |-> 0]
NoFiles == [f \in {} |-> <<>>]

\* No module has gone through the front passes and no file was read.
NoFront ==
    /\ macros = NoMacros
    /\ uniq = 0
    /\ expanded = 0
    /\ asmErr = NoErr
    /\ found = NoFound
    /\ source = <<>>
    /\ files = NoFiles

(***************************************************************************)
(* Actions.                                                                *)
(***************************************************************************)
ZeroMem == [a \in Addrs |-> 0]

\* The CPU as New leaves it.
New ==
    /\ mem = ZeroMem
    /\ intQueue = <<>>
    /\ inIntHandler = FALSE
    /\ initialized = 0
    /\ argType = U8
    /\ intFunc = FALSE
    /\ accepted = <<>>
    /\ delivered = <<>>
    /\ saved = NoSave
    /\ stack = <<>>
    /\ underflow = FALSE
    /\ last = NoStep
    /\ steps = 0
    /\ lastEnq = "none"

\* No module is being assembled.
NoModule ==
    /\ nodes = <<>>
    /\ pass = "none"
    /\ address = 0
    /\ symbols = NoSymbols
    /\ Instructions = <<>>
    /\ follows = NoSymbols
    /\ emitted = <<>>
    /\ decoded = NoDecode

Init == New /\ NoModule /\ NoDevices /\ NoFront /\ NoProc

\* The memory bank as CPU.Startup sets it.
StartupMem == SetU8(SetU16(SetU16(ZeroMem, RIP, 0), RSP, UserMemoryCapacity - 2), RST, 0)

\* CPU.Startup up to the call of devices.Startup; m is the memory bank that
\* the call leaves.
StartupCpuWith(m) ==
    /\ initialized = 0
    /\ initialized' = 1
    /\ mem' = m
    /\ inIntHandler' = FALSE
    /\ intFunc' = TRUE
    /\ stack' = <<>>
    /\ underflow' = FALSE
    /\ last' = NoStep
    /\ UNCHANGED <<intQueue, argType, accepted, delivered, saved, steps, lastEnq>>

StartupCpu == StartupCpuWith(StartupMem)

\* CPU.Startup initializes the cpu and connected peripherals.
Startup ==
    /\ StartupCpu
    /\ UNCHANGED <<asmVars, devVars, frontVars, procVars>>

\* CPU.Shutdown up to the call of devices.Shutdown.
ShutdownCpu ==
    /\ initialized = 1
    /\ initialized' = 0
    /\ UNCHANGED <<mem, intQueue, inIntHandler, argType, intFunc, accepted,
                   delivered, saved, stack, underflow, last, steps, lastEnq>>

\* CPU.Shutdown cleans up internal resources.
Shutdown ==
    /\ ShutdownCpu
    /\ UNCHANGED <<asmVars, devVars, frontVars, procVars>>

\* A device thread calls the interrupt callback with message msg.
Enqueue(msg) ==
    /\ intFunc
    /\ intQueue' = queueInterrupt(mem, intQueue, msg)
    /\ accepted' = IF intQueue' # intQueue THEN Append(accepted, msg) ELSE accepted
    /\ lastEnq' = IF intQueue' # intQueue THEN "accepted"
                  ELSE IF GetU16(mem, RIA) = 0 THEN "disabled" ELSE "full"
    /\ UNCHANGED <<mem, inIntHandler, initialized, argType, intFunc, delivered,
                   saved, stack, underflow, last, steps>>
    /\ UNCHANGED <<asmVars, devVars, frontVars, procVars>>

\* Devices number their messages, so that the order of delivery is observable.
DeviceInt ==
    /\ Len(accepted) < MaxMsgs
    /\ Enqueue(Len(accepted) + 1)

\* The program that idles while devices fill the interrupt queue:
\*     0: mov ria, 9    5: jmp 5    9: iret
FillProgram ==
    (0 :> [op |-> "MOV", args |-> <<Reg(RIA, I16), Const(9)>>])
    @@ (5 :> [op |-> "JMP", args |-> <<Const(5)>>])
    @@ (9 :> [op |-> "IRET", args |-> <<>>])

\* The instructions the code region may hold at address a: any instruction
\* of Instrs (of AluInstrs) for the open programs, the instruction of
\* FillProgram otherwise.
CodeAt(program, a) ==
    CASE program = "any" -> Instrs
      [] program = "alu" -> AluInstrs
      [] program = "rng" -> RngInstrs
      [] program = "hwa" -> HwaInstrs
      [] program = "flags" -> FlagInstrs
      [] OTHER -> IF a \in DOMAIN FillProgram THEN {FillProgram[a]} ELSE {}

\* CPU.Step performs a single execution step of the given program.
StepFetch(program) ==
    /\ initialized = 1
    /\ last.err # "panic"
    /\ \E c1 \in {checkIntQueue([mem |-> mem, ok |-> TRUE, pn |-> FALSE, dm |-> devices, st |-> stack, uf |-> underflow, v |-> 0, q |-> intQueue, inH |-> inIntHandler, dl |-> delivered, sv |-> saved, intr |-> FALSE])} :
         \E ins \in CodeAt(program, GetU16(c1.mem, RIP)) :
           \E d \in {Decode(c1.mem, ins)} :
             \E t0 \in {IF Len(d.args) >= 1 THEN d.args[1].type ELSE argType} :
               \E c2 \in {[c1 EXCEPT !.mem = d.mem, !.ok = c1.ok /\ d.ok]} :
                 \E c3 \in IF d.err \/ ~c2.ok THEN {c2}
                            ELSE Outcomes(c2, ins.op, d.args, t0) :
                   /\ c3.ok
                   /\ mem' = c3.mem
                   /\ intQueue' = c3.q
                   /\ inIntHandler' = c3.inH
                   /\ argType' = t0
                   /\ delivered' = c3.dl
                   /\ saved' = c3.sv
                   /\ stack' = c3.st
                   /\ underflow' = c3.uf
                   /\ last' = [op |-> ins.op, intr |-> c1.intr, pend |-> Len(intQueue),
                               args |-> d.args,
                               err |-> IF c3.pn THEN "panic"
                                       ELSE IF d.err \/ ins.op = "HALT" THEN "EOF"
                                       ELSE "nil"]
    /\ UNCHANGED <<initialized, intFunc, accepted, lastEnq>>
    /\ UNCHANGED <<asmVars, devVars, frontVars, procVars>>

Step ==
    /\ steps < MaxSteps
    /\ steps' = steps + 1
    /\ StepFetch("any")

Next == Startup \/ Shutdown \/ DeviceInt \/ Step

Spec == Init /\ [][Next]_vars

(***************************************************************************)
(* A second specification, to fill the interrupt queue: the program        *)
(*     0: mov ria, 9    5: jmp 5    9: iret                                *)
(* enables interrupts and then idles while devices send messages.          *)
(***************************************************************************)
StepFill ==
    /\ StepFetch("fill")
    /\ UNCHANGED steps

DeviceIntFill ==
    /\ Len(accepted) < MaxFill
    /\ Enqueue(Len(accepted) + 1)

NextFill == Startup \/ DeviceIntFill \/ StepFill

SpecFill == Init /\ [][NextFill]_vars

\* The same program with a host that keeps calling Step, and with fewer
\* messages.
DeviceIntLive ==
    /\ Len(accepted) < MaxLiveMsgs
    /\ Enqueue(Len(accepted) + 1)

NextLive == Startup \/ DeviceIntLive \/ StepFill

SpecLive == Init /\ [][NextLive]_vars /\ WF_vars(StepFill)

(***************************************************************************)
(* A program of compares whose interrupt handler compares as well.         *)
(***************************************************************************)
StepFlags ==
    /\ steps < MaxFlagSteps
    /\ steps' = steps + 1
    /\ StepFetch("flags")

NextFlags == Startup \/ DeviceInt \/ StepFlags

SpecFlags == Init /\ [][NextFlags]_vars

(***************************************************************************)
(* A third specification: the assembler's passes over a module, followed   *)
(* by the VM's decoder reading the emitted image.                          *)
(***************************************************************************)
\* Operand expressions as evaluation leaves them.
Lit(v) == <<Number(v)>>
Imm(v) == <<AddressMode("$"), Number(v)>>
RegOp(i) == <<AddressMode("r"), Number(i)>>
Typed(t, expr) == <<TypeDescriptor(t)>> \o expr

NodeSet ==
    {Label("l"),
     Instruction("HALT", <<>>),
     Instruction("MOV", <<RegOp(0), Lit(7)>>),
     Instruction("MOV", <<RegOp(0), Imm(300)>>),
     Instruction("MOV", <<Typed("u8", RegOp(0)), Imm(7)>>),
     Instruction("PUSH", <<Typed("u16", Lit(7))>>),
     Instruction("JMP", <<Imm(7)>>),
     Instruction("ADD", <<RegOp(0), RegOp(1), Imm(1)>>),
     Instruction("d8", <<>>),
     Instruction("d8", <<Lit(65), Lit(66)>>),
     Instruction("d8", <<<<String(<<97>>)>>>>),
     Instruction("d8", <<<<String(<<97, 98>>)>>>>),
     Instruction("d16", <<<<String(<<97>>)>>>>),
     Instruction("d16", <<Lit(258)>>),
     Instruction("address", <<Lit(4)>>),
     Instruction("reserve", <<Lit(2)>>),
     Instruction("reserve", <<Imm(0)>>)}

Programs == UNION {[1..k -> NodeSet] : k \in 1..MaxNodes}

\* An instruction that is no directive.
IsOrdinary(n) ==
    /\ n.type = "Instruction"
    /\ ~isAddrDirective(n, 0).ok
    /\ ~isReservedDataDirective(n).ok
    /\ ~isDataDirective(n).ok

InitAsm ==
    /\ New
    /\ nodes \in Programs
    /\ pass = "parsed"
    /\ address = 0
    /\ symbols = NoSymbols
    /\ Instructions = <<>>
    /\ follows = NoSymbols
    /\ emitted = <<>>
    /\ decoded = NoDecode
    /\ NoDevices
    /\ NoFront
    /\ NoProc

\* assemble, the label pass.
ResolveLabels ==
    /\ pass = "parsed"
    /\ \E a \in {resolveLabels(nodes)} :
         /\ pass' = IF a.err THEN "error" ELSE "labels"
         /\ nodes' = a.nodes
         /\ address' = a.address
         /\ symbols' = a.symbols
         /\ follows' = a.follows
    /\ UNCHANGED <<Instructions, emitted, decoded>>
    /\ UNCHANGED <<cpuVars, devVars, frontVars, procVars>>

\* assemble, the final pass.
Compile ==
    /\ pass = "labels"
    /\ \E a \in {compile(nodes)} :
         /\ pass' = IF a.err THEN "error" ELSE "compiled"
         /\ address' = a.address
         /\ Instructions' = a.Instructions
         /\ emitted' = a.emitted
    /\ UNCHANGED <<nodes, symbols, follows, decoded>>
    /\ UNCHANGED <<cpuVars, devVars, frontVars, procVars>>

\* The VM decodes the next instruction of the image, as long as the
\* instruction pointer is at the code of the next node and that node is an
\* ordinary instruction whose code is still in the image.
DecodeNext ==
    /\ pass = "compiled"
    /\ ~decoded.instr.err
    /\ decoded.count < Len(nodes)
    /\ \E k \in {decoded.count + 1} :
         /\ IsOrdinary(nodes[k])
         /\ emitted[k].start = decoded.instr.rip
         /\ SubSeq(Instructions, emitted[k].start + 1, emitted[k].end)
                = encode(nodes[k], emitted[k].at).code
         /\ decoded' = [count |-> k,
                        instr |-> InstructionDecode(Instructions, decoded.instr.rip)]
    /\ UNCHANGED <<nodes, pass, address, symbols, Instructions, follows, emitted>>
    /\ UNCHANGED <<cpuVars, devVars, frontVars, procVars>>

NextAsm == ResolveLabels \/ Compile \/ DecodeNext

SpecAsm == InitAsm /\ [][NextAsm]_vars

(***************************************************************************)
(* A fourth specification: a program of arithmetic, compare and branch     *)
(* instructions, run without devices.                                      *)
(***************************************************************************)
StepAlu ==
    /\ steps < MaxAluSteps
    /\ steps' = steps + 1
    /\ StepFetch("alu")

NextAlu == Startup \/ StepAlu

SpecAlu == Init /\ [][NextAlu]_vars

(***************************************************************************)
(* A program of RNG instructions, run without devices.                     *)
(***************************************************************************)
StepRng ==
    /\ steps < MaxRngSteps
    /\ steps' = steps + 1
    /\ StepFetch("rng")

NextRng == Startup \/ StepRng

SpecRng == Init /\ [][NextRng]_vars

(***************************************************************************)
(* The host connects peripherals, given by their ids, and the program      *)
(* looks them up with HWA.                                                 *)
(***************************************************************************)
DeviceIds == {NewID(m, n) : m \in {1, 65534}, n \in {1, 2}}

\* CPU.Connect connects the given hardware peripheral to the system.
Connect ==
    /\ connected.calls < MaxConnects
    /\ last.err # "panic"
    /\ \E id \in DeviceIds :
         /\ devices' = IF Find(devices, id) > -1 THEN devices ELSE Append(devices, id)
         /\ connected' = [id |-> id, ok |-> ~(Find(devices, id) > -1),
                          calls |-> connected.calls + 1]
    /\ UNCHANGED <<ar, buf, br, runs>>
    /\ UNCHANGED <<cpuVars, asmVars, devVars, frontVars>>

StepHwa ==
    /\ steps < MaxHwaSteps
    /\ steps' = steps + 1
    /\ StepFetch("hwa")

NextHwa == Connect \/ Startup \/ StepHwa

SpecHwa == Init /\ [][NextHwa]_vars

(***************************************************************************)
(* A fifth specification: the CPU thread starts the machine, loads         *)
(* registers and raises interrupts on the clock and the drive, and shuts   *)
(* the machine down, while the goroutines of both peripherals run.         *)
(***************************************************************************)
ClockInputs == {0, 5, StackBase - 2}

FdRequests ==
    {<<ReadState, 0, 0>>}
    \cup {<<ReadSector, TransferAddr, s>> : s \in SectorInputs}
    \cup {<<WriteSector, s, TransferAddr>> : s \in SectorInputs}

\* The drive's file holds a disk image, write-protected or not, or is
\* missing, or is a file that does not hold a disk image (storedOk FALSE).
InitDev ==
    /\ New
    /\ NoModule
    /\ NoFront
    /\ NoProc
    /\ clock = ClockNew
    /\ polls = <<>>
    /\ fd \in {FdNew(TRUE, FALSE), FdNew(TRUE, TRUE), FdNew(FALSE, FALSE),
               [FdNew(TRUE, FALSE) EXCEPT !.storedOk = FALSE]}
    /\ workers = <<>>
    /\ devLast = Touch("cpu", {})
    /\ devOps = 0

\* The transfer goroutines of an earlier session whose mem.Write can run
\* while CPU.Startup is between the drive's Startup, which has loaded the
\* disk data again, and its return: nothing orders the two threads.
LateTransfers ==
    {w \in 1..Len(workers) :
        workers[w].pc = "xfer" /\ workers[w].kind = "read" /\ FdStartup(fd).loaded}

\* CPU.Startup with the clock and the drive connected.  late is the
\* transfer goroutine whose mem.Write runs before the call returns, or 0.
StartupDev ==
    /\ ~Crashed
    /\ devOps < MaxDevOps
    /\ clock' = ClockStartup(clock)
    /\ polls' = Append(polls, PollNew)
    /\ fd' = FdStartup(fd)
    /\ \E late \in LateTransfers \cup {0} :
         IF late = 0
         THEN /\ StartupCpu
              /\ UNCHANGED workers
         ELSE /\ StartupCpuWith(MemWrite(StartupMem, fd'.data[workers[late].sector]))
              /\ workers' = [workers EXCEPT ![late].pc = "ready"]
    /\ devLast' = Touch("cpu", {})
    /\ devOps' = devOps + 1
    /\ UNCHANGED <<asmVars, frontVars, procVars>>

\* CPU.Shutdown with the clock and the drive connected.
ShutdownDev ==
    /\ ~Crashed
    /\ devOps < MaxDevOps
    /\ ShutdownCpu
    /\ IF ClockShutdownPanics(clock)
       THEN /\ devLast' = Touch("cpu", {"panic"})
            /\ UNCHANGED <<clock, fd>>
       ELSE /\ clock' = ClockShutdown(clock)
            /\ fd' = FdShutdown(fd)
            /\ devLast' = Touch("cpu", {})
    /\ devOps' = devOps + 1
    /\ UNCHANGED <<polls, workers>>
    /\ UNCHANGED <<asmVars, frontVars, procVars>>

\* The program enables interrupts: mov ria, 9.
LoadRIA ==
    /\ ~Crashed
    /\ devOps < MaxDevOps
    /\ initialized = 1
    /\ GetU16(mem, RIA) = 0
    /\ mem' = SetU16(mem, RIA, 9)
    /\ devLast' = Touch("cpu", {})
    /\ devOps' = devOps + 1
    /\ UNCHANGED <<intQueue, inIntHandler, initialized, argType, intFunc, accepted,
                   delivered, saved, stack, underflow, last, steps, lastEnq>>
    /\ UNCHANGED <<clock, polls, fd, workers>>
    /\ UNCHANGED <<asmVars, frontVars, procVars>>

\* The program loads R0 and R1 and executes INT on the clock.
IntClock ==
    /\ ~Crashed
    /\ devOps < MaxDevOps
    /\ initialized = 1
    /\ \E r0 \in {SetIntID, Uptime, SetTimer}, r1 \in ClockInputs :
         \E m0 \in {SetU16(SetU16(mem, R0, r0), R1, r1)} :
            /\ r0 = Uptime => (r1 .. (r1 + 3)) \subseteq Addrs
            /\ ~ClockIntBlocks(clock, m0)
            /\ \E r \in {ClockInt(clock, m0, 65537)} :
                  /\ clock' = r.clock
                  /\ mem' = r.mem
    /\ devLast' = Touch("cpu", {})
    /\ devOps' = devOps + 1
    /\ UNCHANGED <<intQueue, inIntHandler, initialized, argType, intFunc, accepted,
                   delivered, saved, stack, underflow, last, steps, lastEnq>>
    /\ UNCHANGED <<polls, fd, workers>>
    /\ UNCHANGED <<asmVars, frontVars, procVars>>

\* The program loads R0, R1 and R2 and executes INT on the drive.
IntFd ==
    /\ ~Crashed
    /\ devOps < MaxDevOps
    /\ initialized = 1
    /\ \E req \in FdRequests :
         \E r \in {FdInt(fd, SetU16(SetU16(SetU16(mem, R0, req[1]), R1, req[2]),
                                    R2, req[3]))} :
            /\ fd' = r.fd
            /\ mem' = r.mem
            /\ workers' = workers \o r.go
    /\ devLast' = Touch("cpu", {})
    /\ devOps' = devOps + 1
    /\ UNCHANGED <<intQueue, inIntHandler, initialized, argType, intFunc, accepted,
                   delivered, saved, stack, underflow, last, steps, lastEnq>>
    /\ UNCHANGED <<clock, polls>>
    /\ UNCHANGED <<asmVars, frontVars, procVars>>

\* poll: the select takes the closed endPoll and the goroutine returns.
PollEnd(g) ==
    /\ ~Crashed
    /\ polls[g].pc = "select"
    /\ clock.endPoll = "closed"
    /\ polls' = [polls EXCEPT ![g].pc = "done"]
    /\ devLast' = Touch("poll", {})
    /\ UNCHANGED <<clock, fd, workers, devOps>>
    /\ UNCHANGED <<cpuVars, asmVars, frontVars, procVars>>

\* poll: the select takes an interval from newTimer; time.NewTicker panics
\* on an interval that is not positive.
PollNewTimer(g) ==
    /\ ~Crashed
    /\ polls[g].pc = "select"
    /\ clock.newTimer # <<>>
    /\ clock' = [clock EXCEPT !.newTimer = Tail(clock.newTimer)]
    /\ IF Head(clock.newTimer) <= 0
       THEN /\ devLast' = Touch("poll", {"panic"})
            /\ UNCHANGED polls
       ELSE /\ devLast' = Touch("poll", {})
            /\ polls' = [polls EXCEPT ![g].armed = TRUE]
    /\ UNCHANGED <<fd, workers, devOps>>
    /\ UNCHANGED <<cpuVars, asmVars, frontVars, procVars>>

\* poll: the select takes a tick, whatever else is ready, and the goroutine
\* tests d.intID.  The ticker that poll starts with (a million minutes) is
\* taken never to fire.
PollTick(g) ==
    /\ ~Crashed
    /\ polls[g].pc = "select"
    /\ polls[g].armed
    /\ Len(accepted) < MaxMsgs
    /\ polls' = IF clock.intID > 0
                THEN [polls EXCEPT ![g].pc = "call", ![g].id = clock.intID]
                ELSE polls
    /\ devLast' = Touch("poll", {})
    /\ UNCHANGED <<clock, fd, workers, devOps>>
    /\ UNCHANGED <<cpuVars, asmVars, frontVars, procVars>>

\* poll: d.intFunc(d.intID).  The goroutine reads both fields without
\* synchronisation: once Shutdown has written them it sees the old or the
\* new value.  Calling the nil function panics.
PollCall(g) ==
    /\ ~Crashed
    /\ polls[g].pc = "call"
    /\ \E f \in {clock.intFunc} \cup (IF clock.down THEN {TRUE} ELSE {}),
          id \in {clock.intID} \cup (IF clock.down THEN {polls[g].id} ELSE {}) :
         IF ~f
         THEN /\ devLast' = Touch("poll", {"nilcall", "panic"})
              /\ UNCHANGED <<polls, intQueue, accepted, lastEnq>>
         ELSE /\ devLast' = Touch("poll", {"callback"})
              /\ polls' = [polls EXCEPT ![g].pc = "select"]
              /\ intQueue' = queueInterrupt(mem, intQueue, id)
              /\ accepted' = IF intQueue' # intQueue THEN Append(accepted, id)
                             ELSE accepted
              /\ lastEnq' = IF intQueue' # intQueue THEN "accepted"
                            ELSE IF GetU16(mem, RIA) = 0 THEN "disabled" ELSE "full"
    /\ UNCHANGED <<mem, inIntHandler, initialized, argType, intFunc, delivered,
                   saved, stack, underflow, last, steps>>
    /\ UNCHANGED <<clock, fd, workers, devOps>>
    /\ UNCHANGED <<asmVars, frontVars, procVars>>

\* A transfer goroutine: d.seek(sector % SectorsPerTrack).
WorkerSeek(w) ==
    /\ ~Crashed
    /\ workers[w].pc = "seek"
    /\ fd' = seek(fd, workers[w].sector % SectorsPerTrack)
    /\ workers' = [workers EXCEPT ![w].pc = "xfer"]
    /\ devLast' = Touch("worker", IF fd' # fd THEN {"state"} ELSE {})
    /\ UNCHANGED <<clock, polls, devOps>>
    /\ UNCHANGED <<cpuVars, asmVars, frontVars, procVars>>

\* A transfer goroutine: mem.Write(dst, d.data[...]) or mem.Read(src,
\* d.data[...]).  Slicing the data that Shutdown has set to nil panics.
WorkerTransfer(w) ==
    /\ ~Crashed
    /\ workers[w].pc = "xfer"
    /\ IF ~fd.loaded
       THEN /\ devLast' = Touch("worker", {"data", "panic"})
            /\ UNCHANGED <<mem, fd, workers>>
       ELSE /\ devLast' = Touch("worker", {"data", "mem"})
            /\ workers' = [workers EXCEPT ![w].pc = "ready"]
            /\ IF workers[w].kind = "read"
               THEN /\ mem' = MemWrite(mem, fd.data[workers[w].sector])
                    /\ UNCHANGED fd
               ELSE /\ fd' = [fd EXCEPT !.data[workers[w].sector] = MemRead(mem)]
                    /\ UNCHANGED mem
    /\ UNCHANGED <<intQueue, inIntHandler, initialized, argType, intFunc, accepted,
                   delivered, saved, stack, underflow, last, steps, lastEnq>>
    /\ UNCHANGED <<clock, polls, devOps>>
    /\ UNCHANGED <<asmVars, frontVars, procVars>>

\* A transfer goroutine: after the transfer time, d.setReady().
WorkerReady(w) ==
    /\ ~Crashed
    /\ workers[w].pc = "ready"
    /\ fd' = setReady(fd)
    /\ workers' = [workers EXCEPT ![w].pc = "done"]
    /\ devLast' = Touch("worker", {"state"})
    /\ UNCHANGED <<clock, polls, devOps>>
    /\ UNCHANGED <<cpuVars, asmVars, frontVars, procVars>>

NextDev ==
    \/ StartupDev
    \/ ShutdownDev
    \/ LoadRIA
    \/ IntClock
    \/ IntFd
    \/ \E g \in 1..Len(polls) : PollEnd(g)
    \/ \E g \in 1..Len(polls) : PollNewTimer(g)
    \/ \E g \in 1..Len(polls) : PollTick(g)
    \/ \E g \in 1..Len(polls) : PollCall(g)
    \/ \E w \in 1..Len(workers) : WorkerSeek(w)
    \/ \E w \in 1..Len(workers) : WorkerTransfer(w)
    \/ \E w \in 1..Len(workers) : WorkerReady(w)

SpecDev == InitDev /\ [][NextDev]_vars

\* The same system with a scheduler that lets every transfer goroutine run.
SpecDevLive ==
    /\ InitDev
    /\ [][NextDev]_vars
    /\ WF_vars(\E w \in 1..Len(workers) : WorkerSeek(w))
    /\ WF_vars(\E w \in 1..Len(workers) : WorkerTransfer(w))
    /\ WF_vars(\E w \in 1..Len(workers) : WorkerReady(w))

(***************************************************************************)
(* A sixth specification: the front passes of assemble, one action per     *)
(* pass, over modules put together from a few source fragments, and then   *)
(* one reference lookup as operand evaluation makes it.                    *)
(***************************************************************************)
Nop == Instruction("NOP", <<>>)
Halt == Instruction("HALT", <<>>)

\* The condition r0 == r1.
Cond == <<AddressMode("r"), Number(0), Operator("=="), AddressMode("r"), Number(1)>>

\* Macro bodies:  nop  |  :l nop  |  :l { :k nop }  |  { :k nop }  |
\* if r0 == r1 halt.
Bodies ==
    {<<Nop>>,
     <<Label("l"), Nop>>,
     <<Label("l"), ScopeBegin(""), Label("k"), Nop, ScopeEnd>>,
     <<ScopeBegin(""), Label("k"), Nop, ScopeEnd>>,
     <<Conditional(Cond, Halt)>>}

\* :a { [const x 2] :b { :c { const x 3 } } }
Deep(shadow) ==
    <<Label("a"), ScopeBegin("")>>
    \o (IF shadow THEN <<ConstantNode("x", 2)>> ELSE <<>>)
    \o <<Label("b"), ScopeBegin(""), Label("c"), ScopeBegin(""),
         ConstantNode("x", 3), ScopeEnd, ScopeEnd, ScopeEnd>>

FrontItems ==
    {<<Macro("m", b)>> : b \in Bodies}
    \cup {<<Macro("x", <<Nop>>)>>,
          <<Instruction("m", <<>>)>>,
          <<ScopeBegin(""), Instruction("M", <<>>), ScopeEnd>>,
          <<Label("x")>>,
          <<Label("X")>>,
          <<ConstantNode("x", 1)>>,
          Deep(TRUE),
          Deep(FALSE)}

RECURSIVE Flat(_)
Flat(ss) == IF ss = <<>> THEN <<>> ELSE Head(ss) \o Flat(Tail(ss))

FrontPrograms == UNION {{Flat(p) : p \in [1..k -> FrontItems]} : k \in 1..MaxItems}

LookupScopes == {<<>>, <<"a">>, <<"a", "b">>, <<"a", "b", "c">>}
LookupNames == {<<"x">>, <<"c", "x">>, <<"b", "c", "x">>, <<"a", "b", "c", "x">>}

InitFront ==
    /\ New
    /\ NoDevices
    /\ NoProc
    /\ nodes \in FrontPrograms
    /\ source = nodes
    /\ pass = "parsed"
    /\ address = 0
    /\ symbols = NoSymbols
    /\ Instructions = <<>>
    /\ follows = NoSymbols
    /\ emitted = <<>>
    /\ decoded = NoDecode
    /\ macros = NoMacros
    /\ uniq = 0
    /\ expanded = 0
    /\ asmErr = NoErr
    /\ found = NoFound
    /\ files = NoFiles

\* assemble: syntax.Verify.
VerifyFront ==
    /\ pass = "parsed"
    /\ \E r \in {translateIf(fixScopeNames([nodes |-> nodes, uniq |-> uniq]))} :
         /\ nodes' = r.nodes
         /\ uniq' = r.uniq
    /\ pass' = "verified"
    /\ UNCHANGED <<address, symbols, Instructions, follows, emitted, decoded>>
    /\ UNCHANGED <<macros, expanded, asmErr, found, source, files>>
    /\ UNCHANGED <<cpuVars, devVars, procVars>>

\* assemble: resolveMacros.
ResolveMacros ==
    /\ pass = "verified"
    /\ \E r \in {resolveMacros(nodes, symbols, macros)} :
         /\ nodes' = r.nodes
         /\ macros' = r.macros
         /\ pass' = IF r.err THEN "error" ELSE "macros"
         /\ asmErr' = IF r.err THEN [pass |-> "resolveMacros", key |-> r.key] ELSE asmErr
    /\ UNCHANGED <<address, symbols, Instructions, follows, emitted, decoded>>
    /\ UNCHANGED <<uniq, expanded, found, source, files>>
    /\ UNCHANGED <<cpuVars, devVars, procVars>>

\* assemble: replaceMacroInvocations.
ReplaceMacroInvocations ==
    /\ pass = "macros"
    /\ \E r \in {replaceMacroInvocations(nodes, macros, uniq)} :
         /\ nodes' = r.nodes
         /\ uniq' = r.uniq
         /\ expanded' = r.expanded
         /\ pass' = IF r.over THEN "endless" ELSE "expanded"
    /\ UNCHANGED <<address, symbols, Instructions, follows, emitted, decoded>>
    /\ UNCHANGED <<macros, asmErr, found, source, files>>
    /\ UNCHANGED <<cpuVars, devVars, procVars>>

\* assemble: evaluateReservedAndAddress, which finds no directive in these
\* modules, and resolveLabels.
ResolveLabelsFront ==
    /\ pass = "expanded"
    /\ \E r \in {resolveLabelsScoped(nodes, symbols, macros)} :
         /\ nodes' = r.nodes
         /\ symbols' = r.symbols
         /\ address' = r.address
         /\ pass' = IF r.err THEN "error" ELSE "labels"
         /\ asmErr' = IF r.err THEN [pass |-> "resolveLabels", key |-> r.key] ELSE asmErr
    /\ UNCHANGED <<Instructions, follows, emitted, decoded>>
    /\ UNCHANGED <<macros, uniq, expanded, found, source, files>>
    /\ UNCHANGED <<cpuVars, devVars, procVars>>

\* assemble: evaluateConstants.
EvaluateConstants ==
    /\ pass = "labels"
    /\ \E r \in {evaluateConstants(nodes, symbols)} :
         /\ symbols' = r.symbols
         /\ pass' = IF r.err THEN "error" ELSE "constants"
         /\ asmErr' = IF r.err THEN [pass |-> "evaluateConstants", key |-> r.key]
                      ELSE asmErr
    /\ UNCHANGED <<nodes, address, Instructions, follows, emitted, decoded>>
    /\ UNCHANGED <<macros, uniq, expanded, found, source, files>>
    /\ UNCHANGED <<cpuVars, devVars, procVars>>

\* assemble: evaluateInstructions resolves a reference to name in scope.
Lookup ==
    /\ pass = "constants"
    /\ \E scope \in LookupScopes, name \in LookupNames :
         \E r \in {resolveReference(symbols, address, scope, name)} :
            found' = [scope |-> scope, name |-> name, ok |-> r.ok, value |-> r.value]
    /\ pass' = "done"
    /\ UNCHANGED <<nodes, address, symbols, Instructions, follows, emitted, decoded>>
    /\ UNCHANGED <<macros, uniq, expanded, asmErr, source, files>>
    /\ UNCHANGED <<cpuVars, devVars, procVars>>

NextFront ==
    \/ VerifyFront
    \/ ResolveMacros
    \/ ReplaceMacroInvocations
    \/ ResolveLabelsFront
    \/ EvaluateConstants
    \/ Lookup

SpecFront == InitFront /\ [][NextFront]_vars

(***************************************************************************)
(* A seventh specification: include resolution over a small file system.   *)
(* `files` maps a file name to the nodes its source parses to.             *)
(***************************************************************************)
IncludeNode(path) ==
    Instruction("include",
                <<<<[type |-> "String", value |-> path, num |-> 0, runes |-> <<>>]>>>>)

\* NewAST creates a new, empty AST; over and err are the outcome of the
\* include resolution made on it.
NewAST == [files |-> <<>>, nodes |-> <<>>, err |-> FALSE, over |-> FALSE]

\* hasFile returns true if the AST has seen the given file before.
hasFile(ast, filename) == \E j \in 1..Len(ast.files) : ast.files[j] = filename

\* AST.ParseFile parses the given file into the AST; parsing the same file
\* more than once into the same AST is silently ignored.
ParseFile(ast, fs, filename) ==
    IF hasFile(ast, filename)
    THEN ast
    ELSE [ast EXCEPT !.files = Append(ast.files, filename),
                     !.nodes = ast.nodes \o fs[filename]]

\* buildAST parses the file and resolves its includes; testAndBuildIncludes
\* replaces every include statement by the nodes of the file it names.  The
\* loop goes on behind the node the replacement was put at.  a is
\* an AST; over says that the list has grown beyond MaxAstLen nodes, which
\* it does only when the loop never ends.  Every include statement gets an
\* AST of its own.
RECURSIVE testAndBuildIncludesFrom(_, _, _, _)
testAndBuildIncludesFrom(fs, a, dependencyChain, i) ==
    IF a.err \/ a.over \/ i > Len(a.nodes)
    THEN a
    ELSE IF Len(a.nodes) > MaxAstLen
    THEN [a EXCEPT !.over = TRUE]
    ELSE LET n == a.nodes[i]
         IN  IF n.type # "Instruction" \/ n.name # "include"
             THEN testAndBuildIncludesFrom(fs, a, dependencyChain, i + 1)
             ELSE IF Len(n.args) # 1 \/ Len(n.args[1]) = 0
                     \/ n.args[1][1].type # "String"
                     \/ n.args[1][1].value \notin DOMAIN fs
                     \/ \E j \in 1..Len(dependencyChain) :
                            dependencyChain[j] = n.args[1][1].value
             THEN [a EXCEPT !.err = TRUE]
             ELSE LET inner == testAndBuildIncludesFrom(
                                 fs, ParseFile(NewAST, fs, n.args[1][1].value),
                                 Append(dependencyChain, n.args[1][1].value), 1)
                  IN  IF inner.over
                      THEN [a EXCEPT !.over = TRUE]
                      ELSE IF inner.err
                      THEN [a EXCEPT !.err = TRUE]
                      ELSE testAndBuildIncludesFrom(
                               fs, [a EXCEPT !.nodes = ReplaceAt(a.nodes, i, inner.nodes)],
                               dependencyChain, i + 1)

buildAST(fs, file) ==
    testAndBuildIncludesFrom(fs, ParseFile(NewAST, fs, file), <<file>>, 1)

FileItems == {Nop, Halt, IncludeNode("a"), IncludeNode("b")}
FileContents == UNION {[1..k -> FileItems] : k \in 0..MaxFileNodes}

\* A file that includes itself behind an include of b.
SelfIncluding == <<Nop, IncludeNode("b"), IncludeNode("a")>>

InitInclude ==
    /\ New
    /\ NoDevices
    /\ NoProc
    /\ files \in {("main" :> m) @@ ("a" :> a) @@ ("b" :> b) :
                    m \in FileContents, a \in FileContents \cup {SelfIncluding},
                    b \in {<<>>, <<Halt>>}}
    /\ nodes = <<>>
    /\ source = <<>>
    /\ pass = "none"
    /\ address = 0
    /\ symbols = NoSymbols
    /\ Instructions = <<>>
    /\ follows = NoSymbols
    /\ emitted = <<>>
    /\ decoded = NoDecode
    /\ macros = NoMacros
    /\ uniq = 0
    /\ expanded = 0
    /\ asmErr = NoErr
    /\ found = NoFound

\* BuildAST builds the full AST for the file main and its dependencies.
BuildAST ==
    /\ pass = "none"
    /\ \E r \in {buildAST(files, "main")} :
         /\ nodes' = r.nodes
         /\ pass' = IF r.over THEN "endless" ELSE IF r.err THEN "error" ELSE "parsed"
    /\ UNCHANGED <<address, symbols, Instructions, follows, emitted, decoded>>
    /\ UNCHANGED <<macros, uniq, expanded, asmErr, found, source, files>>
    /\ UNCHANGED <<cpuVars, devVars, procVars>>

NextInclude == BuildAST

SpecInclude == InitInclude /\ [][NextInclude]_vars

(***************************************************************************)
(* An eighth specification: the passes of assemble that evaluate           *)
(* expressions, over modules without macros: a label x, a constant n, and  *)
(* jumps and reserve directives whose operand is an expression.            *)
(***************************************************************************)
EvalInts == {2, 3}

CompareOps == {"==", "!=", "<", "<=", ">", ">="}

Exprs ==
    {<<Number(a), Operator(op), Number(b)>> : a \in EvalInts, b \in EvalInts, op \in CompareOps}
    \cup {<<Number(a), Operator("*"), Operator("-"), Number(b)>> : a \in EvalInts, b \in EvalInts}
    \cup {<<Operator("-"), Number(a), Operator("+"), Number(b)>> : a \in EvalInts, b \in EvalInts}
    \cup {<<Ident("x")>>, <<Ident("n")>>, <<Ident("y")>>, <<Number(2)>>,
          <<Number(2), Operator("+"), Number(3), Operator("*"), Number(2)>>,
          <<Operator("("), Number(2), Operator("+"), Number(3), Operator(")"),
            Operator("*"), Number(2)>>}

EvalInstrs ==
    {Instruction("JMP", <<e>>) : e \in Exprs}
    \cup {Instruction("reserve", <<e>>) :
            e \in {<<Number(2)>>, <<Ident("x")>>, <<Ident("n")>>, <<Ident("y")>>}}

EvalDefs == {<<>>, <<Label("x")>>, <<ConstantNode("n", 4)>>, <<Label("x"), ConstantNode("n", 4)>>}

EvalPrograms ==
    UNION {{d \o p : d \in EvalDefs, p \in [1..k -> EvalInstrs]} : k \in 1..MaxEvalInstrs}

InitEval ==
    /\ New
    /\ NoDevices
    /\ NoProc
    /\ nodes \in EvalPrograms
    /\ source = nodes
    /\ pass = "expanded"
    /\ address = 0
    /\ symbols = NoSymbols
    /\ Instructions = <<>>
    /\ follows = NoSymbols
    /\ emitted = <<>>
    /\ decoded = NoDecode
    /\ macros = NoMacros
    /\ uniq = 0
    /\ expanded = 0
    /\ asmErr = NoErr
    /\ found = NoFound
    /\ files = NoFiles

\* assemble: evaluateReservedAndAddress.
EvaluateReservedAndAddress ==
    /\ pass = "expanded"
    /\ \E r \in {evaluateReservedAndAddress(nodes, symbols)} :
         /\ nodes' = r.nodes
         /\ address' = r.address
         /\ pass' = IF r.err # <<>> THEN "error" ELSE "layout"
         /\ asmErr' = IF r.err # <<>>
                      THEN [pass |-> "evaluateReservedAndAddress", key |-> r.err]
                      ELSE asmErr
    /\ UNCHANGED <<symbols, Instructions, follows, emitted, decoded>>
    /\ UNCHANGED <<macros, uniq, expanded, found, source, files>>
    /\ UNCHANGED <<cpuVars, devVars, procVars>>

\* assemble: resolveLabels, after the layout of the directives.
ResolveLabelsEval ==
    /\ pass = "layout"
    /\ \E r \in {resolveLabelsScoped(nodes, symbols, macros)} :
         /\ nodes' = r.nodes
         /\ symbols' = r.symbols
         /\ address' = r.address
         /\ pass' = IF r.err THEN "error" ELSE "labels"
         /\ asmErr' = IF r.err THEN [pass |-> "resolveLabels", key |-> r.key] ELSE asmErr
    /\ UNCHANGED <<Instructions, follows, emitted, decoded>>
    /\ UNCHANGED <<macros, uniq, expanded, found, source, files>>
    /\ UNCHANGED <<cpuVars, devVars, procVars>>

\* assemble: evaluateInstructions.
EvaluateInstructions ==
    /\ pass = "constants"
    /\ \E r \in {evaluateInstructions(nodes, symbols)} :
         /\ nodes' = r.nodes
         /\ address' = r.address
         /\ pass' = IF r.err # <<>> THEN "error" ELSE "evaluated"
         /\ asmErr' = IF r.err # <<>>
                      THEN [pass |-> "evaluateInstructions", key |-> r.err]
                      ELSE asmErr
    /\ UNCHANGED <<symbols, Instructions, follows, emitted, decoded>>
    /\ UNCHANGED <<macros, uniq, expanded, found, source, files>>
    /\ UNCHANGED <<cpuVars, devVars, procVars>>

NextEval ==
    \/ EvaluateReservedAndAddress
    \/ ResolveLabelsEval
    \/ EvaluateConstants
    \/ EvaluateInstructions

SpecEval == InitEval /\ [][NextEval]_vars

(***************************************************************************)
(* A ninth specification: an archive is saved to a buffer and the buffer   *)
(* is loaded into a new archive, as TestAR does it.                        *)
(***************************************************************************)
ArBytes == {0, 255}

ArInstructions == UNION {[1..k -> ArBytes] : k \in 0..MaxArBytes}

\* The file names "a" and "".
ArFiles == {<<>>, <<<<97>>>>, <<<<97>>, <<>>>>}

ArSymbols ==
    {DebugData(a, f, l, 30, 40, fl) : a \in {0, 50}, f \in {0, 256}, l \in {20, 65536},
                                      fl \in {0, 1}}

Archives ==
    {[Debug |-> [Files |-> fs, Symbols |-> ss], Instructions |-> p] :
        fs \in ArFiles,
        ss \in UNION {[1..k -> ArSymbols] : k \in 0..MaxSymbols},
        p \in ArInstructions}

InitAr ==
    /\ New
    /\ NoModule
    /\ NoDevices
    /\ NoFront
    /\ ar \in Archives
    /\ buf = <<>>
    /\ br = NoLoad
    /\ runs = <<>>
    /\ devices = <<>>
    /\ connected = NoConnect

\* ar.Save(&buf).
Save ==
    /\ buf = <<>>
    /\ buf' = ArchiveSave(ar)
    /\ UNCHANGED <<ar, br, runs, devices, connected>>
    /\ UNCHANGED <<cpuVars, asmVars, devVars, frontVars>>

\* br := New(); br.Load(&buf).
Load ==
    /\ buf # <<>>
    /\ ~br.loaded
    /\ \E r \in {ArchiveLoad(NewArchive, buf)} :
         br' = [archive |-> r.archive, err |-> r.err, loaded |-> TRUE]
    /\ UNCHANGED <<ar, buf, runs, devices, connected>>
    /\ UNCHANGED <<cpuVars, asmVars, devVars, frontVars>>

NextAr == Save \/ Load

SpecAr == InitAr /\ [][NextAr]_vars

(***************************************************************************)
(* A tenth specification: one process assembles several modules, one after *)
(* the other.  Every assembly has its own assembler; the passes are those  *)
(* of the sixth specification up to the expansion of the macros, which are *)
(* the passes that make names.                                             *)
(***************************************************************************)
\* { nop }  |  if r0 == r1 halt  |  macro m { :k nop }  |  m
RunItems ==
    {<<ScopeBegin(""), Nop, ScopeEnd>>,
     <<Conditional(Cond, Halt)>>,
     <<Macro("m", <<ScopeBegin(""), Label("k"), Nop, ScopeEnd>>)>>,
     <<Instruction("m", <<>>)>>}

RunPrograms == UNION {{Flat(p) : p \in [1..k -> RunItems]} : k \in 1..2}

InitRuns ==
    /\ New
    /\ NoDevices
    /\ NoProc
    /\ nodes \in RunPrograms
    /\ source = nodes
    /\ pass = "parsed"
    /\ address = 0
    /\ symbols = NoSymbols
    /\ Instructions = <<>>
    /\ follows = NoSymbols
    /\ emitted = <<>>
    /\ decoded = NoDecode
    /\ macros = NoMacros
    /\ uniq = 0
    /\ expanded = 0
    /\ asmErr = NoErr
    /\ found = NoFound
    /\ files = NoFiles

\* The assembly returns, with the module as the passes left it.
Finish ==
    /\ pass \in {"expanded", "error"}
    /\ runs' = Append(runs, [source |-> source, nodes |-> nodes, err |-> pass = "error"])
    /\ pass' = "returned"
    /\ UNCHANGED <<nodes, address, symbols, Instructions, follows, emitted, decoded>>
    /\ UNCHANGED <<ar, buf, br, devices, connected>>
    /\ UNCHANGED <<cpuVars, devVars, frontVars>>

\* The process assembles the next module, with a new assembler; the
\* counter of syntax.UniqueName belongs to the package, not the assembler.
NewAssembly ==
    /\ pass = "returned"
    /\ Len(runs) < MaxRuns
    /\ nodes' \in RunPrograms
    /\ source' = nodes'
    /\ pass' = "parsed"
    /\ address' = 0
    /\ symbols' = NoSymbols
    /\ macros' = NoMacros
    /\ expanded' = 0
    /\ asmErr' = NoErr
    /\ UNCHANGED <<Instructions, follows, emitted, decoded>>
    /\ UNCHANGED <<uniq, found, files>>
    /\ UNCHANGED <<cpuVars, devVars, procVars>>

NextRuns ==
    \/ VerifyFront
    \/ ResolveMacros
    \/ ReplaceMacroInvocations
    \/ Finish
    \/ NewAssembly

SpecRuns == InitRuns /\ [][NextRuns]_vars

(***************************************************************************)
(* An eleventh specification: the decoder at the top of user memory.  The  *)
(* bank holds a few code bytes in the last addresses of user space and the *)
(* instruction pointer is at the first of them; Instruction.Decode is run  *)
(* on the bank from where the decode before it left the pointer.           *)
(***************************************************************************)
\* nop, mov and push; as operand attributes: a constant, an address, and
\* the registers 0, 7, 8, 15, 16 and 63.
DecodeBytes == {0, 2, 3, 64, 128, 135, 136, 143, 144, 191}

Tails == UNION {[1..k -> DecodeBytes] : k \in 1..MaxTail}

\* The bank with code in the last Len(code) addresses of user memory.
TopBank(code) ==
    [a \in (UserMemoryCapacity - Len(code) + 1)..UserMemoryCapacity
        |-> code[a - (UserMemoryCapacity - Len(code))]]

InitDecode ==
    /\ New
    /\ NoDevices
    /\ NoFront
    /\ NoProc
    /\ nodes = <<>>
    /\ pass = "loaded"
    /\ address = 0
    /\ symbols = NoSymbols
    /\ follows = NoSymbols
    /\ emitted = <<>>
    /\ \E code \in Tails :
         /\ Instructions = TopBank(code)
         /\ decoded = [NoDecode EXCEPT !.instr.rip = UserMemoryCapacity - Len(code)]

\* Instruction.Decode on the bank, unless the decode before it failed.
DecodeMore ==
    /\ pass = "loaded"
    /\ ~decoded.instr.err
    /\ ~decoded.instr.panic
    /\ decoded.count < MaxDecodes
    /\ decoded' = [count |-> decoded.count + 1,
                   instr |-> InstructionDecode(Instructions, decoded.instr.rip)]
    /\ UNCHANGED <<nodes, pass, address, symbols, Instructions, follows, emitted>>
    /\ UNCHANGED <<cpuVars, devVars, frontVars, procVars>>

NextDecode == DecodeMore

SpecDecode == InitDecode /\ [][NextDecode]_vars

(***************************************************************************)
(* Properties of the interrupt queue and the callstack.                    *)
(***************************************************************************)
IsPrefix(s, t) == Len(s) <= Len(t) /\ SubSeq(t, 1, Len(s)) = s

\* The transition is a call of Step.
IsStep == steps' = steps + 1

\* C1: a message is delivered (dequeued, handler entered) only at the top of
\* a Step at which RIA is non-zero; at a Step with RIA = 0 nothing is
\* dequeued, also when the message was enqueued while RIA was non-zero.
C1_DeliveryOnlyWithRIA ==
    [][delivered' # delivered => GetU16(mem, RIA) # 0]_vars

\* C2: while the CPU is inside an interrupt handler, Step never dequeues a
\* message: pending messages and messages enqueued meanwhile stay queued and
\* no second handler activation starts.
C2_NoDeliveryInHandler ==
    [][inIntHandler => (delivered' = delivered /\ IsPrefix(intQueue, intQueue')
                        /\ saved' = saved)]_vars

C2_Witness ==
    /\ inIntHandler
    /\ last.op # "none" /\ ~last.intr /\ last.pend > 0
    /\ intQueue # <<>>

\* C3: the messages delivered to the handler are, in order, the first of the
\* messages accepted into the queue, the rest still being queued in the
\* order of their acceptance: each accepted message is delivered at most
\* once and never before one accepted earlier.
C3_FIFO ==
    /\ IsPrefix(delivered, accepted)
    /\ delivered \o intQueue = accepted

C3_Witness ==
    /\ Len(delivered) >= 2
    /\ last.intr

\* C4: the number of pending messages never exceeds 32, and an enqueue
\* attempted while 32 messages are pending completes, discards the new
\* message and leaves the pending messages and their order unchanged.
C4_QueueBounded ==
    /\ [](Len(intQueue) <= IntQueueCapacity)
    /\ [][\A msg \in 1..(MaxFill + 1) :
            (Len(intQueue) = IntQueueCapacity /\ Enqueue(msg))
                => (intQueue' = intQueue /\ accepted' = accepted
                    /\ lastEnq' = "full")]_vars

C4_Witness ==
    /\ Len(intQueue) = IntQueueCapacity
    /\ lastEnq = "full"

\* The callstack and R0 are as interrupt entry left them: RSP is back at
\* its value after the two pushes and both saved slots are intact.
HandlerBalanced ==
    /\ GetU16(mem, RSP) = (saved.rsp - 4) % 65536
    /\ GetU16(mem, saved.rsp) = saved.rip
    /\ GetU16(mem, (saved.rsp - 2) % 65536) = saved.r0

\* C5: for a handler that leaves the stack balanced, interrupt entry
\* followed by IRET restores the full 16-bit R0, RIP and RSP to the values
\* they had immediately before the message was delivered, whatever
\* instructions the handler executed before the IRET, and clears the
\* in-handler flag.
C5_IretRestores ==
    [][(IsStep /\ last'.op = "IRET"
        /\ (last'.intr \/ (inIntHandler /\ HandlerBalanced)))
          => (/\ GetU16(mem', R0) = saved'.r0
              /\ GetU16(mem', RIP) = saved'.rip
              /\ GetU16(mem', RSP) = saved'.rsp
              /\ ~inIntHandler')]_vars

\* C6: whenever a handler activation returns control to the interrupted
\* code, by IRET or by a plain RET after the handler restored R0, the
\* in-handler flag is cleared.
C6_ReturnClearsFlag ==
    [][(/\ IsStep /\ inIntHandler /\ ~last'.intr
        /\ last'.op \in {"RET", "IRET"}
        /\ GetU16(mem', RIP) = saved.rip
        /\ GetU16(mem', RSP) = saved.rsp
        /\ GetU16(mem', R0) = saved.r0)
          => ~inIntHandler']_vars

C10_PushStoresAtNewRSP ==
    [][(IsStep /\ last'.op = "PUSH" /\ ~last'.intr /\ InBank(GetU16(mem', RSP)))
          => (/\ GetU16(mem', RSP) = (GetU16(mem, RSP) - 2) % 65536
              /\ GetU16(mem', GetU16(mem', RSP)) = stack'[Len(stack')])]_vars

\* C10 amended: PUSH v decrements RSP by 2 and stores v at the address RSP
\* held before the decrement, so that v is at mem16[RSP+2] afterwards.
C10_PushStoresAtOldRSP ==
    [][(IsStep /\ last'.op = "PUSH" /\ ~last'.intr)
          => (/\ GetU16(mem', RSP) = (GetU16(mem, RSP) - 2) % 65536
              /\ GetU16(mem', GetU16(mem, RSP)) = stack'[Len(stack')]
              /\ GetU16(mem', GetU16(mem', RSP) + 2) = stack'[Len(stack')])]_vars

C10_Witness ==
    /\ last.op = "PUSH" /\ ~last.intr
    /\ stack # <<>> /\ stack[Len(stack)] = 3
    /\ GetU16(mem, GetU16(mem, RSP) + 2) = 3

\* C11: CALL addr pushes the address of the instruction that follows the
\* CALL (a CALL with a constant operand is four bytes long) and sets
\* RIP = addr; the RET that finds this address on top of the stack sets RIP
\* to it and puts RSP back to its value before the CALL, at any depth.
C11_CallRet ==
    /\ [][(IsStep /\ last'.op = "CALL" /\ ~last'.intr)
            => (/\ stack' = Append(stack, (GetU16(mem, RIP) + 4) % 65536)
                /\ GetU16(mem', GetU16(mem, RSP)) = (GetU16(mem, RIP) + 4) % 65536
                /\ GetU16(mem', RIP) = last'.args[1].val % 65536
                /\ GetU16(mem', RSP) = (GetU16(mem, RSP) - 2) % 65536)]_vars
    /\ [][(IsStep /\ last'.op = "RET" /\ ~last'.intr /\ ~underflow /\ stack # <<>>)
            => (/\ GetU16(mem', RIP) = stack[Len(stack)]
                /\ GetU16(mem', RSP) = StackBase - 2 * (Len(stack) - 1)
                /\ stack' = SubSeq(stack, 1, Len(stack) - 1))]_vars

C11_Witness ==
    /\ last.op = "RET" /\ ~last.intr /\ ~underflow
    /\ stack = <<4>>
    /\ GetU16(mem, RIP) = 7
    /\ GetU16(mem, RSP) = StackBase - 2

(***************************************************************************)
(* Properties of arithmetic, compare and branch.                           *)
(***************************************************************************)
\* The full-width result of an arithmetic instruction with decoded operands a.
FullResult(op, a) ==
    CASE op = "ADD" -> a[2].val + a[3].val
      [] op = "SUB" -> a[2].val - a[3].val
      [] op = "MUL" -> a[2].val * a[3].val
      [] op = "POW" -> GoPow(a[2].val, a[3].val)
      [] op = "DIV" -> GoQuo(a[2].val, a[3].val)
      [] op = "MOD" -> GoRem(a[2].val, a[3].val)

\* Memory m holds v, truncated to the width of dst, at the destination.
Stored(m, dst, v) ==
    IF dst.type \in {U16, I16}
    THEN GetU16(m, dst.addr) = v % 65536
    ELSE m[dst.addr] = v % 256

\* The bytes of the destination include the flag byte of RST.
TouchesRST(dst) ==
    \/ dst.addr = RST
    \/ dst.type \in {U16, I16} /\ dst.addr + 1 = RST

C13_DivideByZero ==
    [][(IsStep /\ last'.op \in {"DIV", "MOD"})
          => LET a == last'.args
             IN  IF a[3].val = 0
                 THEN /\ RSTDivideByZero(mem')
                      /\ \A x \in {a[1].addr, a[1].addr + 1} \cap Addrs : mem'[x] = mem[x]
                      /\ last'.err = "nil"
                 ELSE /\ ~RSTDivideByZero(mem')
                      /\ Stored(mem', a[1], FullResult(last'.op, a))]_vars

\* C13 amended: the same for a destination that does not include the flag
\* byte of RST.
C13_DivideByZeroNotRST ==
    [][(IsStep /\ last'.op \in {"DIV", "MOD"} /\ ~TouchesRST(last'.args[1]))
          => LET a == last'.args
             IN  IF a[3].val = 0
                 THEN /\ RSTDivideByZero(mem')
                      /\ \A x \in {a[1].addr, a[1].addr + 1} \cap Addrs : mem'[x] = mem[x]
                      /\ last'.err = "nil"
                 ELSE /\ ~RSTDivideByZero(mem')
                      /\ Stored(mem', a[1], FullResult(last'.op, a))]_vars

C13_Witness ==
    /\ last.op = "DIV" /\ last.args[1].addr = R0 /\ last.args[3].val = 0
    /\ RSTDivideByZero(mem)
    /\ GetU16(mem, R0) # 0
    /\ last.err = "nil"

C15_WorkersTerminated ==
    [][/\ (clock.down /\ devLast'.actor = "poll")
            => devLast'.touch \cap {"callback", "nilcall"} = {}
       /\ (fd.down /\ devLast'.actor = "worker")
            => devLast'.touch = {}]_vars

\* C16: no goroutine of a device reads or writes the memory bank; a device
\* touches memory only on the CPU thread, inside Int.
C16_MemoryOnlyInsideInt ==
    [][devLast'.actor \in {"poll", "worker"} => "mem" \notin devLast'.touch]_vars

(***************************************************************************)
(* Properties of the assembler.                                            *)
(***************************************************************************)
\* C7: for every node of a module that assembled, encodedLen at the address
\* the encoder is at equals the number of bytes by which the encoder
\* advances the address when it emits the node, and the address recorded
\* for a label is the address at which the node after the label is emitted.
C7_AddressStability ==
    pass = "compiled"
      => (/\ \A k \in 1..Len(nodes) :
               encodedLen(nodes[k], emitted[k].at) = emitted[k].end - emitted[k].at
          /\ \A l \in DOMAIN symbols :
               follows[l] <= Len(nodes) => symbols[l] = emitted[follows[l]].at)

\* C8: the decoder reads every emitted instruction back with the opcode,
\* the operand address modes and the operand values the assembler encoded:
\* an unprefixed literal as an immediate constant of that value, a `$`
\* operand as an indirect constant (the address of the value), a register
\* operand as that register; so `mov r0, 7` moves the constant 7.
C8_RoundTrip ==
    decoded.count > 0
      => LET n == nodes[decoded.count]
             i == decoded.instr
         IN  /\ ~i.err
             /\ i.Opcode = Opcode(n.name)
             /\ Len(i.Args) = Len(n.args)
             /\ \A j \in 1..Len(n.args) :
                  /\ n.args[j] \in {Lit(v) : v \in {1, 7, 300}}
                       => (i.Args[j].Mode = Constant
                           /\ i.Args[j].Value = n.args[j][1].num)
                  /\ n.args[j] \in {Imm(v) : v \in {1, 7, 300}}
                       => (i.Args[j].Mode = Address
                           /\ i.Args[j].Address = n.args[j][2].num)
                  /\ n.args[j] \in {RegOp(r) : r \in {0, 1}}
                       => (i.Args[j].Mode = Register
                           /\ i.Args[j].Address = R0 + 2 * n.args[j][2].num)

(***************************************************************************)
(* Properties of the front passes.                                         *)
(***************************************************************************)
\* The module as resolveMacros leaves it, computed again from the source.
Resolved ==
    resolveMacros(translateIf(fixScopeNames([nodes |-> source, uniq |-> 0])).nodes,
                  NoSymbols, NoMacros)

\* Label resolution fails on the module even with every macro invocation
\* taken out of it.
InvocationIs(n) == n.type = "Instruction" /\ findMacro(Resolved.macros, n.name, <<>>).ok

FailsWithoutExpansions ==
    resolveLabelsScoped(SelectSeq(Resolved.nodes, LAMBDA n : ~InvocationIs(n)),
                        NoSymbols, Resolved.macros).err

\* Every macro of the module has a scope in its body.
BodiesHaveScope ==
    \A k \in DOMAIN macros : \E i \in 1..Len(macros[k]) : macros[k][i].type = "ScopeBegin"

\* C17: when a macro whose body contains a scope is invoked two or more
\* times, label resolution reports no duplicate definition that the
\* expansions cause: if it reports one, the module has it with the
\* invocations taken out as well.
C17_MacroHygiene ==
    (pass = "error" /\ asmErr.pass = "resolveLabels" /\ expanded >= 2 /\ BodiesHaveScope)
      => FailsWithoutExpansions

\* The keys of the labels, constants and macros a module defines outside of
\* macro bodies, in the order of the definitions.
RECURSIVE DefKeysFrom(_, _, _)
DefKeysFrom(ns, scope, i) ==
    IF i > Len(ns)
    THEN <<>>
    ELSE CASE ns[i].type = "ScopeBegin" ->
                 DefKeysFrom(ns, Join(scope, <<ns[i].name>>), i + 1)
           [] ns[i].type = "ScopeEnd" ->
                 DefKeysFrom(ns, Split(scope), i + 1)
           [] ns[i].type \in {"Label", "Constant", "Macro"} ->
                 <<LowerPath(Join(scope, <<ns[i].name>>))>>
                 \o DefKeysFrom(ns, scope, i + 1)
           [] OTHER -> DefKeysFrom(ns, scope, i + 1)

SourceKeys == DefKeysFrom(fixScopeNames([nodes |-> source, uniq |-> 0]).nodes, <<>>, 1)

\* C18: the key sets of the symbol table and the macro table are disjoint
\* at every point of an assembly, and an assembly gets past the constants
\* pass only if no two definitions of the module (labels, constants,
\* macros, in any order) have the same scoped, case-insensitive name.
C18_TablesDisjoint ==
    /\ DOMAIN symbols \cap DOMAIN macros = {}
    /\ pass \in {"constants", "done"}
         => \A i, j \in 1..Len(SourceKeys) : SourceKeys[i] = SourceKeys[j] => i = j

RECURSIVE IncludedFrom(_, _, _, _)
IncludedFrom(fs, ns, chain, i) ==
    IF i > Len(ns)
    THEN [nodes |-> <<>>, err |-> FALSE]
    ELSE LET rest == IncludedFrom(fs, ns, chain, i + 1)
         IN  IF ns[i].type # "Instruction" \/ ns[i].name # "include"
             THEN [rest EXCEPT !.nodes = <<ns[i]>> \o rest.nodes]
             ELSE IF \E j \in 1..Len(chain) : chain[j] = ns[i].args[1][1].value
             THEN [nodes |-> <<>>, err |-> TRUE]
             ELSE LET f == ns[i].args[1][1].value
                      inner == IncludedFrom(fs, fs[f], Append(chain, f), 1)
                  IN  [nodes |-> inner.nodes \o rest.nodes, err |-> inner.err \/ rest.err]

Included == IncludedFrom(files, files["main"], <<"main">>, 1)

\* C20: after include resolution no include instruction remains in the
\* node list, and the nodes of every included file stand where its include
\* statement stood, in their order, between the nodes that were there.
C20_IncludesReplaced ==
    pass = "parsed"
      => /\ \A i \in 1..Len(nodes) :
               ~(nodes[i].type = "Instruction" /\ nodes[i].name = "include")
         /\ ~Included.err => nodes = Included.nodes

\* The nodes of a file with every include statement replaced by the nodes
\* of the file it names, where a file that was parsed before, anywhere in
\* the build, adds nothing.  The result is [nodes, seen].
RECURSIVE IncludedOnceFrom(_, _, _, _)
IncludedOnceFrom(fs, ns, seen, i) ==
    IF i > Len(ns)
    THEN [nodes |-> <<>>, seen |-> seen]
    ELSE IF ns[i].type # "Instruction" \/ ns[i].name # "include"
    THEN LET rest == IncludedOnceFrom(fs, ns, seen, i + 1)
         IN  [rest EXCEPT !.nodes = <<ns[i]>> \o rest.nodes]
    ELSE LET f == ns[i].args[1][1].value
         IN  IF f \in seen
             THEN IncludedOnceFrom(fs, ns, seen, i + 1)
             ELSE LET inner == IncludedOnceFrom(fs, fs[f], seen \cup {f}, 1)
                      rest == IncludedOnceFrom(fs, ns, inner.seen, i + 1)
                  IN  [nodes |-> inner.nodes \o rest.nodes, seen |-> rest.seen]

IncludedOnce == IncludedOnceFrom(files, files["main"], {"main"}, 1).nodes

NoIncludeLeft ==
    \A i \in 1..Len(nodes) : ~(nodes[i].type = "Instruction" /\ nodes[i].name = "include")

\* C21: when a build without an include cycle has replaced all its include
\* statements, the nodes of a file that is included more than once (from
\* two files, or twice from one) stand in the AST once, where the file was
\* included first.
C21_IncludedOnce ==
    (pass = "parsed" /\ ~Included.err /\ NoIncludeLeft) => nodes = IncludedOnce

(***************************************************************************)
(* Properties of expression evaluation.                                    *)
(***************************************************************************)
\* Some operand of the module as parsed refers to the name.
RefersTo(name) ==
    \E i \in 1..Len(source) :
       /\ source[i].type = "Instruction"
       /\ \E j \in 1..Len(source[i].args) :
             \E k \in 1..Len(source[i].args[j]) :
                /\ source[i].args[j][k].type = "Ident"
                /\ source[i].args[j][k].value = name

\* C22: a reference that cannot be resolved does not make the layout pass
\* of the address and reserve directives fail, and a module with an operand
\* that refers to a name defined nowhere does not get through the final
\* evaluation of the operands.
C22_UnresolvedReferences ==
    /\ (pass = "error" /\ asmErr.pass = "evaluateReservedAndAddress")
         => ~Contains(asmErr.key, MsgUnresolved)
    /\ pass = "evaluated" => ~RefersTo("y")


\* The node is an instruction whose one operand compares two integer
\* literals.
IsCompare(n) ==
    /\ n.type = "Instruction"
    /\ Len(n.args) = 1
    /\ Len(n.args[1]) = 3
    /\ n.args[1][1].type = "Number"
    /\ n.args[1][2].type = "Operator"
    /\ n.args[1][2].value \in CompareOps
    /\ n.args[1][3].type = "Number"

\* Whether a op b holds, as the language defines the comparison.
Holds(op, a, b) ==
    CASE op = "==" -> a = b
      [] op = "!=" -> a # b
      [] op = "<" -> a < b
      [] op = "<=" -> a <= b
      [] op = ">" -> a > b
      [] op = ">=" -> a >= b

\* C23: the evaluation of a comparison of two integers succeeds, and the
\* operand becomes -1 when the comparison holds and 0 when it does not.
C23_Comparisons ==
    /\ (pass = "error" /\ asmErr.pass = "evaluateInstructions")
         => ~(Contains(asmErr.key, MsgInvalidType) \/ Contains(asmErr.key, MsgUnrecognized))
    /\ pass = "evaluated" =>
         \A i \in 1..Len(source) :
            IsCompare(source[i]) =>
               nodes[i].args[1] =
                  <<Number(IF Holds(source[i].args[1][2].value, source[i].args[1][1].num,
                                    source[i].args[1][3].num)
                           THEN -1 ELSE 0)>>

\* The node is an instruction whose one operand is a * -b.
IsProductWithMinus(n) ==
    /\ n.type = "Instruction"
    /\ Len(n.args) = 1
    /\ Len(n.args[1]) = 4
    /\ n.args[1][1].type = "Number"
    /\ n.args[1][2] = Operator("*")
    /\ n.args[1][3] = Operator("-")
    /\ n.args[1][4].type = "Number"

\* The node is an instruction whose one operand is -a + b.
IsMinusThenSum(n) ==
    /\ n.type = "Instruction"
    /\ Len(n.args) = 1
    /\ Len(n.args[1]) = 4
    /\ n.args[1][1] = Operator("-")
    /\ n.args[1][2].type = "Number"
    /\ n.args[1][3] = Operator("+")
    /\ n.args[1][4].type = "Number"

\* C24: a unary minus applies to the operand that follows it: a * -b
\* evaluates to -(a * b) and -a + b to b - a, and neither fails.
C24_UnaryMinus ==
    /\ (pass = "error" /\ asmErr.pass = "evaluateInstructions")
         => ~(Contains(asmErr.key, MsgMissingOperand)
              \/ Contains(asmErr.key, MsgMissingOperands)
              \/ Contains(asmErr.key, MsgTooManyResults))
    /\ pass = "evaluated" =>
         \A i \in 1..Len(source) :
            /\ IsProductWithMinus(source[i]) =>
                  nodes[i].args[1] =
                     <<Number(0 - (source[i].args[1][1].num * source[i].args[1][4].num))>>
            /\ IsMinusThenSum(source[i]) =>
                  nodes[i].args[1] =
                     <<Number(source[i].args[1][4].num - source[i].args[1][2].num)>>

(***************************************************************************)
(* Properties of the archive format.                                       *)
(***************************************************************************)
\* C25 as stated: the archive loaded from the bytes that Save wrote equals
\* the archive that was saved, whatever it holds.
C25_RoundTripAny == br.loaded => (~br.err /\ br.archive = ar)

\* Every count and every field of the archive fits the width that the file
\* format gives it.
FitsFormat(a) ==
    /\ Len(a.Debug.Files) < 256
    /\ \A i \in 1..Len(a.Debug.Files) : Len(a.Debug.Files[i]) < 65536
    /\ Len(a.Debug.Symbols) < 65536
    /\ \A i \in 1..Len(a.Debug.Symbols) :
          /\ a.Debug.Symbols[i].Address \in 0..65535
          /\ a.Debug.Symbols[i].File \in 0..255
          /\ a.Debug.Symbols[i].Line \in 0..65535
          /\ a.Debug.Symbols[i].Col \in 0..65535
          /\ a.Debug.Symbols[i].Offset >= 0
          /\ a.Debug.Symbols[i].Flags \in 0..255
    /\ Len(a.Instructions) < 65536

\* C25, amended: the archive loaded from the bytes that Save wrote equals
\* the archive that was saved, when every count and field of the archive
\* fits the width the file format gives it.
C25_RoundTrip == (br.loaded /\ FitsFormat(ar)) => (~br.err /\ br.archive = ar)

C25_Witness ==
    /\ br.loaded
    /\ FitsFormat(ar)
    /\ ar.Debug.Files # <<>>
    /\ ar.Debug.Symbols # <<>>
    /\ Len(ar.Instructions) >= 2
    /\ br.archive = ar


(***************************************************************************)
(* Properties of the fresh-name generator.                                 *)
(***************************************************************************)
\* C26: what an assembly makes of a module depends on the module only, not
\* on the assemblies the process did before: two assemblies of the same
\* module give the same nodes, fresh names included.
C26_FreshNamesPerRun ==
    \A i \in 1..Len(runs) :
       \A j \in 1..Len(runs) :
          runs[i].source = runs[j].source => runs[i].nodes = runs[j].nodes


(***************************************************************************)
(* Properties of Startup.                                                  *)
(***************************************************************************)
\* C27: when Startup has succeeded, also after an earlier session, every
\* byte of user memory and every register is zero except RSP, which is
\* UserMemoryCapacity - 2, the in-handler flag is clear, and the startup of
\* each connected device was called once with the interrupt callback: the
\* clock holds the callback and has started one poll loop, the drive is up.
C27_StartupState ==
    [][(initialized = 0 /\ initialized' = 1)
          => /\ mem' = SetU16(ZeroMem, RSP, UserMemoryCapacity - 2)
             /\ GetU16(mem', RIP) = 0
             /\ mem'[RST] = 0
             /\ ~inIntHandler'
             /\ intFunc'
             /\ clock'.intFunc
             /\ Len(polls') = Len(polls) + 1
             /\ ~fd'.down]_vars

(***************************************************************************)
(* Properties of the decoder.                                              *)
(***************************************************************************)
\* The encoded length of an operand of the given address mode.
OperandLength(mode) == IF mode = Register THEN 1 ELSE 3

RECURSIVE OperandLengths(_, _)
OperandLengths(args, j) ==
    IF j = 0 THEN 0 ELSE OperandLengths(args, j - 1) + OperandLength(args[j].Mode)

\* The encoded length of a decoded instruction.
InstructionLength(i) == 1 + OperandLengths(i.Args, Len(i.Args))

Decoded == decoded.count > 0 /\ ~decoded.instr.err /\ ~decoded.instr.panic

\* C28: after each successful decode of an instruction located at address
\* p, the instruction pointer is p + 1 + the sum of the operand lengths, one
\* byte for a register operand and three for a constant or address operand.
C28_RipAfterDecode ==
    (pass = "loaded" /\ Decoded)
      => decoded.instr.rip = decoded.instr.IP + InstructionLength(decoded.instr)

\* C29: once fetching has advanced the instruction pointer past the last
\* address of user memory, the next fetch returns end-of-stream: a decode
\* that follows an instruction ending at the last address fails, and no
\* instruction is decoded from bytes behind the last address.
C29_EndOfStream ==
    [][(pass = "loaded" /\ decoded'.count = decoded.count + 1)
         => /\ (Decoded /\ decoded.instr.IP + InstructionLength(decoded.instr)
                              >= UserMemoryCapacity)
                 => decoded'.instr.err
            /\ (~decoded'.instr.err /\ ~decoded'.instr.panic)
                 => decoded'.instr.IP + InstructionLength(decoded'.instr)
                        <= UserMemoryCapacity]_vars

\* The address of the attribute byte of operand j of the decoded instruction.
AttributeAt(i, j) == (i.IP + 1 + OperandLengths(i.Args, j - 1)) % 65536

\* C30: for every operand attribute byte b whose address mode is register,
\* the decoded operand address is USER_MEM + 2 * (b & 0xf) and lies inside
\* the register window, so the typed read at that address stays inside the
\* memory bank.
C30_RegisterAddress ==
    (pass = "loaded" /\ decoded.count > 0)
      => /\ ~decoded.instr.panic
         /\ \A j \in 1..Len(decoded.instr.Args) :
              decoded.instr.Args[j].Mode = Register
                => /\ decoded.instr.Args[j].Address
                        = UserMemoryCapacity
                            + 2 * (LoadedU8(Instructions,
                                            AttributeAt(decoded.instr, j)) % 16)
                   /\ decoded.instr.Args[j].Address + 1 < MemoryCapacity

(***************************************************************************)
(* A specification of macro expansion: the passes of assemble up to        *)
(* replaceMacroInvocations over modules whose macros have bodies that      *)
(* invoke macros, themselves included.                                     *)
(***************************************************************************)
\* macro m [nop | m | nop m | n | nop n | (nothing)] endmacro,
\* macro n [nop | nop m | nop m m] endmacro, the invocations m and n, in a
\* scope too, and nop.
ExpandItems ==
    {<<Macro("m", b)>> : b \in {<<Nop>>,
                                 <<Instruction("m", <<>>)>>,
                                 <<Nop, Instruction("m", <<>>)>>,
                                 <<Instruction("n", <<>>)>>,
                                 <<Nop, Instruction("n", <<>>)>>,
                                 <<>>}}
    \cup {<<Macro("n", b)>> : b \in {<<Nop>>,
                                      <<Nop, Instruction("m", <<>>)>>,
                                      <<Nop, Instruction("m", <<>>),
                                        Instruction("m", <<>>)>>}}
    \cup {<<Instruction("m", <<>>)>>,
          <<Instruction("n", <<>>)>>,
          <<ScopeBegin(""), Instruction("M", <<>>), ScopeEnd>>,
          <<Nop>>}

ExpandPrograms == UNION {{Flat(p) : p \in [1..k -> ExpandItems]} : k \in 1..MaxExpandItems}

InitExpand ==
    /\ New
    /\ NoDevices
    /\ NoProc
    /\ nodes \in ExpandPrograms
    /\ source = nodes
    /\ pass = "parsed"
    /\ address = 0
    /\ symbols = NoSymbols
    /\ Instructions = <<>>
    /\ follows = NoSymbols
    /\ emitted = <<>>
    /\ decoded = NoDecode
    /\ macros = NoMacros
    /\ uniq = 0
    /\ expanded = 0
    /\ asmErr = NoErr
    /\ found = NoFound
    /\ files = NoFiles

NextExpand ==
    \/ VerifyFront
    \/ ResolveMacros
    \/ ReplaceMacroInvocations

SpecExpand == InitExpand /\ [][NextExpand]_vars

(***************************************************************************)
(* Properties of the remaining instructions and of the session.            *)
(***************************************************************************)
\* The step executed RNG with the operands dst, lo and hi.
IsRng == IsStep /\ last'.op = "RNG" /\ Len(last'.args) = 3

\* The offsets of the half-open range [0, n); for n = 0 the value lo itself
\* is taken as the only result.
RngOffsets(n) == IF n = 0 THEN {0} ELSE 0..(n - 1)

\* C31: RNG dst, lo, hi with hi < lo sets the overflow flag and leaves dst
\* unchanged; with hi >= lo, hi = lo included, it completes normally, clears
\* the overflow flag and writes lo plus an offset of [0, hi - lo) to dst.
C31_Rng ==
    [][IsRng
         => LET dst == last'.args[1]
                lo == last'.args[2].val
                hi == last'.args[3].val
            IN  IF hi < lo
                THEN /\ last'.err = "nil"
                     /\ RSTOverflow(mem')
                     /\ typedRead(mem', dst.type, dst.addr)
                            = typedRead(mem, dst.type, dst.addr)
                ELSE /\ last'.err = "nil"
                     /\ ~RSTOverflow(mem')
                     /\ \E r \in RngOffsets(hi - lo) :
                          typedRead(mem', dst.type, dst.addr)
                              = typedConst(dst.type, lo + r)]_vars

\* The step is a call of Connect.
IsConnect == connected'.calls = connected.calls + 1

\* The step executed HWA with the operands dst, mfr and serial.
IsHwa == IsStep /\ last'.op = "HWA" /\ Len(last'.args) = 3

\* The ids in the table are pairwise distinct.
DistinctIds == \A i, j \in 1..Len(devices) : devices[i] = devices[j] => i = j

\* C32 as stated: Connect returns false and leaves the table unchanged when
\* the id is already present, the ids of the table are pairwise distinct and
\* keep their insertion index, and HWA for a connected id sets the compare
\* flag and writes the insertion index to dst, whatever dst is.
C32_ConnectAndHwaAny ==
    [][/\ DistinctIds
       /\ IsConnect
            => /\ Find(devices, connected'.id) > -1
                    => (~connected'.ok /\ devices' = devices)
               /\ Find(devices, connected'.id) = -1
                    => (connected'.ok /\ devices' = Append(devices, connected'.id))
       /\ \A id \in DeviceIds :
            Find(devices, id) > -1 => Find(devices', id) = Find(devices, id)
       /\ (IsHwa /\ Find(devices, NewID(last'.args[2].val, last'.args[3].val)) > -1)
            => /\ RSTCompare(mem')
               /\ typedRead(mem', last'.args[1].type, last'.args[1].addr)
                      = typedConst(last'.args[1].type,
                                   Find(devices, NewID(last'.args[2].val,
                                                       last'.args[3].val)))]_vars

\* C32: Connect returns false and leaves the table unchanged when the id is
\* already present, the ids of the table are pairwise distinct and keep
\* their insertion index, and HWA for a connected id, with a destination
\* other than RST, sets the compare flag and writes the insertion index.
C32_ConnectAndHwa ==
    [][/\ DistinctIds
       /\ IsConnect
            => /\ Find(devices, connected'.id) > -1
                    => (~connected'.ok /\ devices' = devices)
               /\ Find(devices, connected'.id) = -1
                    => (connected'.ok /\ devices' = Append(devices, connected'.id))
       /\ \A id \in DeviceIds :
            Find(devices, id) > -1 => Find(devices', id) = Find(devices, id)
       /\ (IsHwa /\ last'.args[1].addr # RST
                 /\ Find(devices, NewID(last'.args[2].val, last'.args[3].val)) > -1)
            => /\ RSTCompare(mem')
               /\ typedRead(mem', last'.args[1].type, last'.args[1].addr)
                      = typedConst(last'.args[1].type,
                                   Find(devices, NewID(last'.args[2].val,
                                                       last'.args[3].val)))]_vars

\* The program found the second device at index 1, and the last Connect
\* was refused.
C32_Witness ==
    /\ last.op = "HWA"
    /\ Len(last.args) = 3
    /\ last.args[1].addr = R0
    /\ Find(devices, NewID(last.args[2].val, last.args[3].val)) = 1
    /\ RSTCompare(mem)
    /\ GetU8(mem, R0) = 1
    /\ connected.calls = MaxConnects
    /\ ~connected.ok

\* C33: include resolution terminates on every set of source files: when
\* following the includes from the root file reaches a file that is on the
\* current dependency chain it stops with the circular reference error, and
\* otherwise it completes without that error.
C33_IncludeTerminates ==
    pass # "none"
      => /\ pass # "endless"
         /\ Included.err <=> pass = "error"

\* C34: immediately after a successful Startup the interrupt queue is
\* empty, so that no message enqueued before that Startup is delivered in
\* the new session.
C34_QueueEmptyAfterStartup ==
    [][(initialized = 0 /\ initialized' = 1) => intQueue' = <<>>]_vars

\* C35: every message accepted into the interrupt queue is eventually
\* delivered to the handler, provided Step keeps being called without an
\* error and every handler activation executes IRET.
C35_EventuallyDelivered ==
    \A k \in 1..MaxLiveMsgs : (Len(accepted) >= k) ~> (Len(delivered) >= k)

\* Every accepted message was delivered, the later ones after a handler
\* activation had ended.
C35_Witness ==
    /\ Len(accepted) = MaxLiveMsgs
    /\ delivered = accepted
    /\ ~inIntHandler

\* C36: an interrupt taken between two instructions and ended by IRET
\* leaves the compare, overflow and divide-by-zero bits of RST as they were
\* just before the message was delivered.
C36_StatusPreserved ==
    [][(IsStep /\ last'.op = "IRET" /\ ~last'.intr /\ inIntHandler /\ HandlerBalanced)
          => GetU8(mem', RST) % 8 = saved.rst % 8]_vars

\* The step is a call of CPU.Startup with the peripherals connected, and
\* the drive's Startup returned an error.
StartupFailed == Len(polls') = Len(polls) + 1 /\ fd'.error = ErrorBroken

\* C37: when Startup returns an error because a device failed to start,
\* the CPU is left not started, so that a following Step returns
\* end-of-program and a following Startup is attempted again.
C37_FailedStartup ==
    [][StartupFailed => initialized' = 0]_vars

\* C38: every read or write request the drive accepts, which sets its state
\* to busy, is eventually followed by the drive leaving the busy state: no
\* request, whatever sector it names, leaves the drive busy forever.
C38_BusyEnds ==
    (fd.state = StateBusy) ~> (fd.state # StateBusy)

\* C39: the macro invocation expansion pass ends for every module, also for
\* one with a macro whose body invokes itself directly or through other
\* macros: the node list does not grow without bound.
C39_ExpansionTerminates ==
    pass # "endless"

\* The scope the expansion loop is in when it reaches node i.
RECURSIVE ScopeUpTo(_, _)
ScopeUpTo(ns, i) ==
    IF i = 0
    THEN <<>>
    ELSE CASE ns[i].type = "ScopeBegin" -> Join(ScopeUpTo(ns, i - 1), <<ns[i].name>>)
           [] ns[i].type = "ScopeEnd" -> Split(ScopeUpTo(ns, i - 1))
           [] OTHER -> ScopeUpTo(ns, i - 1)

\* Node i is an instruction whose name resolves to a macro.
IsInvocation(ns, i) ==
    /\ ns[i].type = "Instruction"
    /\ findMacro(macros, ns[i].name, ScopeUpTo(ns, i - 1)).ok

\* C40: when the expansion pass has finished, no instruction of the node list
\* has a name that resolves to a macro.
C40_NoInvocationLeft ==
    pass = "expanded" => \A i \in 1..Len(nodes) : ~IsInvocation(nodes, i)

====
